---- MODULE Spec2Model ----
(***************************************************************************)
(* SnipeIT -> NetBox reconciliation (src/main.py, src/syncer.py,           *)
(* src/snipe.py) as a state machine.                                       *)
(*                                                                         *)
(* One behaviour is a sequence of passes of main.py over a fixed source    *)
(* (the SnipeIT collections) against the NetBox store.  Every loop         *)
(* iteration of a stage is one step.  The NetBox store is the external     *)
(* collaborator: it is modelled as a plain table per kind that accepts     *)
(* every create and update, assigns ids 1, 2, ... and lists records in id  *)
(* order.  A python exception (TypeError, AttributeError, AssertionError,  *)
(* ValueError) is not caught anywhere in the program, so it ends the pass: *)
(* pc = "crashed".                                                         *)
(*                                                                         *)
(* Strings are sequences of atoms (an atom is a character or a whole       *)
(* word), so that find, rfind, slicing, strip, lower and slugify are       *)
(* computed and not assumed.  Free text (description, comments) is a       *)
(* sequence of paragraphs.                                                 *)
(***************************************************************************)
EXTENDS Integers, Sequences, FiniteSets, TLC

VARIABLES
    allow_updates,   \* Syncer.allow_updates
    allow_linking,   \* Syncer.allow_linking
    snipe,           \* the source collections main.py reads
    netbox,          \* the target store: kind -> table of records, id = position
    snap,            \* the in-memory lists a stage loaded with .all()
    sub_locations,   \* snipe_sub_locations of sync_locations
    updates,         \* the batch __sync_location_relationships collects
    pc,              \* the stage main.py is in
    i,               \* position of the stage's for loop
    pass,            \* number of the running pass (stands for the timestamp too)
    calls,           \* write calls issued to the target in the running pass
    err,             \* the exception that ended the pass, "" if none
    last_run,        \* how the run before this one ended: "none", "done", "crashed"
    custom_field     \* the custom field snipe_object_id of the target: "missing" or its ui_visibility

vars == <<allow_updates, allow_linking, snipe, netbox, snap, sub_locations,
          updates, pc, i, pass, calls, err, last_run, custom_field>>

-----------------------------------------------------------------------------
(* Python values and string operations *)

None == 0
NoneStr == <<"<None>">>

DEFAULT_SITE_NAME == <<"Default", " ", "Site">>

MaxOf(S) == CHOOSE x \in S : \A y \in S : y <= x

\* next((item for item in the_list if P(item)), None): position of the first hit, 0 for None
FirstIndex(the_list, P(_)) ==
    IF \E k \in 1..Len(the_list) : P(the_list[k])
    THEN CHOOSE k \in 1..Len(the_list) :
            P(the_list[k]) /\ \A j \in 1..(k - 1) : ~P(the_list[j])
    ELSE 0

\* str.find(c) for a one-atom needle: 0-based index of the first hit, -1 if none
Find(s, c) == FirstIndex(s, LAMBDA a : a = c) - 1

\* t occurs in s at 0-based index k
OccursAt(s, t, k) == k + Len(t) <= Len(s) /\ SubSeq(s, k + 1, k + Len(t)) = t

\* str.rfind(t): 0-based index of the last occurrence, -1 if none
RFind(s, t) ==
    LET hits == {k \in 0..Len(s) : OccursAt(s, t, k)}
    IN  IF hits = {} THEN -1 ELSE MaxOf(hits)

\* t in s
Contains(s, t) == RFind(s, t) >= 0

\* s[0:n] for 0 <= n
Prefix(s, n) == SubSeq(s, 1, IF n < Len(s) THEN n ELSE Len(s))

\* str.strip()
RECURSIVE LStrip(_, _)
LStrip(s, cs) == IF s # <<>> /\ Head(s) \in cs THEN LStrip(Tail(s), cs) ELSE s

RECURSIVE RStrip(_, _)
RStrip(s, cs) ==
    IF s # <<>> /\ s[Len(s)] \in cs THEN RStrip(SubSeq(s, 1, Len(s) - 1), cs) ELSE s

Strip(s) == RStrip(LStrip(s, {" "}), {" "})

\* str.lower()
LowerAtom(a) ==
    CASE a = "A" -> "a"
      [] a = "Oper" -> "oper"
      [] a = "Default" -> "default"
      [] a = "Site" -> "site"
      [] OTHER -> a

Lower(s) == [k \in 1..Len(s) |-> LowerAtom(s[k])]

\* re.sub(r"[-\s]+", "-", value)
RECURSIVE Hyphenate(_, _)
Hyphenate(s, acc) ==
    IF s = <<>> THEN acc
    ELSE IF Head(s) \in {"-", " "}
         THEN IF acc # <<>> /\ acc[Len(acc)] = "-"
              THEN Hyphenate(Tail(s), acc)
              ELSE Hyphenate(Tail(s), Append(acc, "-"))
         ELSE Hyphenate(Tail(s), Append(acc, Head(s)))

\* Syncer.slugify: lower, drop what is neither word, space nor hyphen, join runs
\* of spaces and hyphens into one hyphen, strip hyphens and underscores
slugify(value) ==
    LET lowered == Lower(value)
        kept == SelectSeq(lowered, LAMBDA a : a \notin {"/", "!", "."})
    IN  RStrip(LStrip(Hyphenate(kept, <<>>), {"-", "_"}), {"-", "_"})

\* dict | dict
Merge(a, b) ==
    [f \in (DOMAIN a) \cup (DOMAIN b) |-> IF f \in DOMAIN b THEN b[f] ELSE a[f]]

-----------------------------------------------------------------------------
(* Free text: self.desc and __gen_update_comment *)

Paragraph(verb, time, suffix) == [verb |-> verb, time |-> time, suffix |-> suffix]

\* self.desc = f"Imported from SnipeIT {current_time}"
desc(time) == <<Paragraph("Imported", time, "")>>

\* desc.replace("Imported", "Updated")
desc_updated(time) == <<Paragraph("Updated", time, "")>>

\* a faulty comment: the old comment is dropped
comment_overwriting(old_comment, suffix, time) == <<Paragraph("Updated", time, suffix)>>

\* old_comment + "\r\n\r\n" + desc.replace("Imported", "Updated") + " (" + suffix + ")"
gen_update_comment(old_comment, suffix, time) ==
    old_comment \o <<Paragraph("Updated", time, suffix)>>

\* "Notes from SnipeIT when initially creating this Netbox Entry. ..." + notes
initial_notes(notes) == <<Paragraph("Notes", 0, notes)>>

-----------------------------------------------------------------------------
(* The target store *)

Kinds == {"tenants", "manufacturers", "device_types", "sites", "locations",
          "device_roles", "devices"}

\* what the target stores for the attributes a create call leaves out
Blank(kind) ==
    CASE kind = "tenants" ->
            [id |-> 0, name |-> <<>>, slug |-> <<>>, description |-> <<>>,
             snipe_object_id |-> None]
      [] kind = "manufacturers" ->
            [id |-> 0, name |-> <<>>, slug |-> <<>>, description |-> <<>>,
             snipe_object_id |-> None]
      [] kind = "device_types" ->
            [id |-> 0, model |-> <<>>, slug |-> <<>>, description |-> <<>>,
             part_number |-> <<>>, manufacturer |-> None, comments |-> <<>>,
             snipe_object_id |-> None]
      [] kind = "sites" ->
            [id |-> 0, name |-> <<>>, slug |-> <<>>, description |-> <<>>,
             comments |-> <<>>, snipe_object_id |-> None]
      [] kind = "locations" ->
            [id |-> 0, name |-> <<>>, slug |-> <<>>, description |-> <<>>,
             site |-> None, parent |-> None, snipe_object_id |-> None]
      [] kind = "device_roles" ->
            [id |-> 0, name |-> <<>>, slug |-> <<>>, snipe_object_id |-> None]
      [] kind = "devices" ->
            [id |-> 0, name |-> NoneStr, comments |-> <<>>, description |-> <<>>,
             asset_tag |-> NoneStr, role |-> None, serial |-> <<>>,
             device_type |-> None, tenant |-> None, site |-> None,
             snipe_object_id |-> None]

\* The effect of a run of calls on the store: w = [netbox, calls, err].
World(nb, cs) == [netbox |-> nb, calls |-> cs, err |-> ""]

Raise(w, exception) == [w EXCEPT !.err = exception]

\* endpoint.create(**attrs): the new record gets the next id
Create(w, kind, attrs) ==
    LET new == Merge(Merge(Blank(kind), attrs), [id |-> Len(w.netbox[kind]) + 1])
    IN  [w EXCEPT !.netbox[kind] = Append(@, new),
                  !.calls = Append(@, [op |-> "create", kind |-> kind, payload |-> new])]

\* the record the last create returned
Created(w, kind) == w.netbox[kind][Len(w.netbox[kind])]

\* a faulty update: the attributes the payload leaves out are reset
update_replacing(w, kind, payload) ==
    [w EXCEPT !.netbox[kind][payload.id] = Merge(Blank(kind), payload),
              !.calls = Append(@, [op |-> "update", kind |-> kind, payload |-> payload])]

\* a faulty update: the record is taken out of the table
update_deleting(w, kind, payload) ==
    [w EXCEPT !.netbox[kind] = SelectSeq(@, LAMBDA item : item.id # payload.id),
              !.calls = Append(@, [op |-> "update", kind |-> kind, payload |-> payload])]

\* endpoint.update([payload]): the attributes named in the payload are overwritten
Update(w, kind, payload) ==
    [w EXCEPT !.netbox[kind][payload.id] = Merge(@, payload),
              !.calls = Append(@, [op |-> "update", kind |-> kind, payload |-> payload])]

-----------------------------------------------------------------------------
(* Stage 1-4: tenants, manufacturers, device types, sites.  Each operator   *)
(* is the body of the stage's for loop for one source record; the lists are *)
(* the ones the stage loaded before the loop and never refreshes.           *)

\* a faulty lookup: it never finds a linkage key
lookup_without_key(the_list, needle) == 0

\* the linkage-key scan: next(item for item in the_list if item.custom_fields[KEY] == needle)
get_customfield_from_dict_list(the_list, needle) ==
    FirstIndex(the_list, LAMBDA item : item.snipe_object_id = needle)

\* the name scan of tenants, manufacturers, sites and roles
get_by_name(the_list, name) ==
    FirstIndex(the_list, LAMBDA item : item.name = name)

\* a faulty lookup order: the name scan runs first, the linkage key second
sync_company_name_first(w, netbox_tenants, snipe_company, linking, updating, time) ==
    LET by_id == get_customfield_from_dict_list(netbox_tenants, snipe_company.id)
        by_name == get_by_name(netbox_tenants, snipe_company.name)
    IN  IF by_name # 0
        THEN IF linking /\ netbox_tenants[by_name].snipe_object_id # snipe_company.id
             THEN Update(w, "tenants",
                         [id |-> netbox_tenants[by_name].id,
                          description |-> desc_updated(time),
                          snipe_object_id |-> snipe_company.id])
             ELSE w
        ELSE IF by_id = 0
             THEN Create(w, "tenants",
                         [name |-> snipe_company.name,
                          slug |-> slugify(snipe_company.name),
                          description |-> desc(time),
                          snipe_object_id |-> snipe_company.id])
             ELSE IF updating
                  THEN Update(w, "tenants",
                              [id |-> netbox_tenants[by_id].id,
                               name |-> snipe_company.name,
                               slug |-> slugify(snipe_company.name),
                               description |-> desc_updated(time)])
                  ELSE w

\* body of the loop of sync_companies_to_tenants
sync_company(w, netbox_tenants, snipe_company, linking, updating, time) ==
    LET by_id == get_customfield_from_dict_list(netbox_tenants, snipe_company.id)
        by_name == get_by_name(netbox_tenants, snipe_company.name)
    IN  IF by_id = 0
        THEN IF by_name = 0
             THEN Create(w, "tenants",
                         [name |-> snipe_company.name,
                          slug |-> slugify(snipe_company.name),
                          description |-> desc(time),
                          snipe_object_id |-> snipe_company.id])
             ELSE IF linking
                  THEN Update(w, "tenants",
                              [id |-> netbox_tenants[by_name].id,
                               description |-> desc_updated(time),
                               snipe_object_id |-> snipe_company.id])
                  ELSE w
        ELSE IF netbox_tenants[by_id].name # snipe_company.name
             THEN IF updating
                  THEN Update(w, "tenants",
                              [id |-> netbox_tenants[by_id].id,
                               name |-> snipe_company.name,
                               slug |-> slugify(snipe_company.name),
                               description |-> desc_updated(time)])
                  ELSE w
             ELSE w

\* body of the loop of sync_manufacturers
sync_manufacturer(w, netbox_manufacturers, snipe_manuf, linking, updating, time) ==
    LET by_id == get_customfield_from_dict_list(netbox_manufacturers, snipe_manuf.id)
        by_name == get_by_name(netbox_manufacturers, snipe_manuf.name)
    IN  IF by_id = 0
        THEN IF by_name = 0
             THEN Create(w, "manufacturers",
                         [name |-> snipe_manuf.name,
                          slug |-> slugify(snipe_manuf.name),
                          description |-> desc(time),
                          snipe_object_id |-> snipe_manuf.id])
             ELSE IF linking
                  THEN Update(w, "manufacturers",
                              [id |-> netbox_manufacturers[by_name].id,
                               snipe_object_id |-> snipe_manuf.id])
                  ELSE w
        ELSE IF netbox_manufacturers[by_id].name # snipe_manuf.name
             THEN IF updating
                  THEN Update(w, "manufacturers",
                              [id |-> netbox_manufacturers[by_id].id,
                               name |-> snipe_manuf.name,
                               slug |-> slugify(snipe_manuf.name)])
                  ELSE w
             ELSE w

\* item["manufacturer"]["name"] of a listed device type: the nested manufacturer
\* as the target held it when the stage listed both collections
nested_manufacturer_name(item, netbox_manufacturers) ==
    netbox_manufacturers[item.manufacturer].name

\* the changed attributes of a linked device type (update_obj of the else branch)
device_type_diff(present, model, manuf_id) ==
    Merge(Merge(
        IF present.model # model.name
        THEN [id |-> present.id, model |-> model.name, slug |-> slugify(model.name)]
        ELSE <<>>,
        IF present.part_number # model.model_number
        THEN [id |-> present.id, part_number |-> model.model_number]
        ELSE <<>>),
        IF present.manufacturer # manuf_id
        THEN [id |-> present.id, manufacturer |-> manuf_id]
        ELSE <<>>)

\* body of the loop of sync_models_to_device_types
sync_model(w, netbox_device_types, netbox_manufacturers, model, linking, updating, time) ==
    LET manuf_by_model == get_by_name(netbox_manufacturers, model.manufacturer.name)
        by_id == get_customfield_from_dict_list(netbox_device_types, model.id)
        by_name == FirstIndex(netbox_device_types,
                       LAMBDA item :
                           /\ item.model = model.name
                           /\ nested_manufacturer_name(item, netbox_manufacturers)
                                  = model.manufacturer.name)
    IN  IF by_id = 0
        THEN IF by_name = 0
             THEN IF manuf_by_model = 0
                  THEN Raise(w, "AttributeError")   \* manuf_by_model.id on None
                  ELSE Create(w, "device_types",
                              [slug |-> slugify(model.name),
                               description |-> desc(time),
                               model |-> model.name,
                               part_number |-> model.model_number,
                               manufacturer |-> netbox_manufacturers[manuf_by_model].id,
                               snipe_object_id |-> model.id,
                               comments |-> initial_notes(model.notes)])
             ELSE IF linking
                  THEN Update(w, "device_types",
                              [id |-> netbox_device_types[by_name].id,
                               snipe_object_id |-> model.id,
                               comments |-> gen_update_comment(
                                   netbox_device_types[by_name].comments, "Snipe ID", time)])
                  ELSE w
        ELSE IF manuf_by_model = 0
             THEN Raise(w, "AttributeError")        \* manuf_by_model.id on None
             ELSE LET present == netbox_device_types[by_id]
                      update_obj == device_type_diff(present, model,
                                        netbox_manufacturers[manuf_by_model].id)
                  IN  IF "id" \in DOMAIN update_obj
                      THEN IF updating
                           THEN Update(w, "device_types",
                                    Merge(update_obj,
                                          [comments |-> gen_update_comment(
                                               present.comments, "Values", time)]))
                           ELSE w
                      ELSE w

\* body of the loop of sync_top_locations_to_sites
sync_top_location(w, netbox_sites, location, linking, updating, time) ==
    LET by_id == get_customfield_from_dict_list(netbox_sites, location.id)
        by_name == get_by_name(netbox_sites, location.name)
    IN  IF by_id = 0
        THEN IF by_name = 0
             THEN Create(w, "sites",
                         [name |-> location.name,
                          slug |-> slugify(location.name),
                          description |-> desc(time),
                          snipe_object_id |-> location.id])
             ELSE IF linking
                  THEN Update(w, "sites",
                              [id |-> netbox_sites[by_name].id,
                               comments |-> gen_update_comment(
                                   netbox_sites[by_name].comments, "Snipe ID", time),
                               snipe_object_id |-> location.id])
                  ELSE w
        ELSE IF netbox_sites[by_id].name # location.name
             THEN IF updating
                  THEN Update(w, "sites",
                              [id |-> netbox_sites[by_id].id,
                               name |-> location.name,
                               slug |-> slugify(location.name),
                               comments |-> gen_update_comment(
                                   netbox_sites[by_id].comments, "Values", time)])
                  ELSE w
             ELSE w

-----------------------------------------------------------------------------
(* Stage 5-6: locations below a site, and their parent pointers *)

\* a faulty walk: when the parent is not linked to a site the first site is taken
find_site_or_first(parent, netbox_sites, locations_with_parents) ==
    IF get_customfield_from_dict_list(netbox_sites, parent) # 0
    THEN get_customfield_from_dict_list(netbox_sites, parent)
    ELSE IF netbox_sites # <<>> THEN 1 ELSE 0

\* the while loop of __sync_location: walk up the parents until one is linked to
\* a site; position of that site in netbox_sites, 0 for the error return
RECURSIVE find_site(_, _, _)
find_site(parent, netbox_sites, locations_with_parents) ==
    IF parent = None
    THEN 0
    ELSE LET site == get_customfield_from_dict_list(netbox_sites, parent)
             parent_item == FirstIndex(locations_with_parents,
                                       LAMBDA item : item.id = parent)
             up == IF parent_item # 0
                   THEN locations_with_parents[parent_item].parent
                   ELSE None
         IN  IF site # 0
             THEN site
             ELSE find_site(up, netbox_sites, locations_with_parents)

\* __sync_location: one source location with a parent
sync_location(w, netbox_sites, netbox_locations, locations_with_parents, location, linking, updating, time) ==
    LET site_at == find_site(location.parent, netbox_sites, locations_with_parents)
    IN  IF site_at = 0
        THEN w          \* logging.error("can not find the Site ..."); return
        ELSE LET site == netbox_sites[site_at]
                 by_id == get_customfield_from_dict_list(netbox_locations, location.id)
                 by_name == FirstIndex(netbox_locations,
                                LAMBDA item : item.name = location.name
                                              /\ item.site = site.id)
             IN  IF by_id = 0
                 THEN IF by_name = 0
                      THEN Create(w, "locations",
                                  [name |-> location.name,
                                   slug |-> slugify(location.name),
                                   description |-> desc(time),
                                   site |-> site.id,
                                   snipe_object_id |-> location.id])
                      ELSE IF linking
                           THEN Update(w, "locations",
                                       [id |-> netbox_locations[by_name].id,
                                        snipe_object_id |-> location.id])
                           ELSE w
                 ELSE IF \/ netbox_locations[by_id].name # location.name
                         \/ netbox_locations[by_id].site # site.id
                      THEN IF updating
                           THEN Update(w, "locations",
                                       [id |-> netbox_locations[by_id].id,
                                        name |-> location.name,
                                        site |-> site.id,
                                        slug |-> slugify(location.name)])
                           ELSE w
                      ELSE w

\* snipe_locations_with_parent of sync_locations
with_parent(locations) == SelectSeq(locations, LAMBDA s : s.parent # None)

\* top_locations of sync_top_locations_to_sites
top_locations(locations) == SelectSeq(locations, LAMBDA s : s.parent = None)

\* snipe_sub_locations of sync_locations: the parent is not linked to a site
sub_locations_of(locations, netbox_sites) ==
    SelectSeq(with_parent(locations),
              LAMBDA s : get_customfield_from_dict_list(netbox_sites, s.parent) = 0)

\* body of the loop of __sync_location_relationships: [err, updates]
sync_location_relationship(netbox_locations, snipe_location, batch, updating) ==
    LET loc == get_customfield_from_dict_list(netbox_locations, snipe_location.id)
        parent_loc == get_customfield_from_dict_list(netbox_locations,
                                                     snipe_location.parent)
    IN  IF loc = 0 \/ parent_loc = 0
        THEN [err |-> "AssertionError", updates |-> batch]
        ELSE IF netbox_locations[loc].parent = None
             THEN [err |-> "TypeError", updates |-> batch]   \* None["id"]
             ELSE IF netbox_locations[loc].parent # netbox_locations[parent_loc].id
                  THEN IF updating
                       THEN [err |-> "",
                             updates |-> Append(batch,
                                 [id |-> netbox_locations[loc].id,
                                  parent |-> netbox_locations[parent_loc].id])]
                       ELSE [err |-> "", updates |-> batch]
                  ELSE [err |-> "", updates |-> batch]

\* self.netbox.dcim.locations.update(updates): the whole batch in one call
RECURSIVE update_all(_, _, _)
update_all(w, kind, batch) ==
    IF batch = <<>> THEN w
    ELSE update_all(Update(w, kind, Head(batch)), kind, Tail(batch))

-----------------------------------------------------------------------------
(* Stage 7: devices, with their site, tenant and role *)

\* endpoint.get(name=...) on the live store: [err, at]; more than one hit raises
get_one(table, P(_)) ==
    LET hits == {k \in 1..Len(table) : P(table[k])}
    IN  IF Cardinality(hits) > 1
        THEN [err |-> "ValueError", at |-> 0]
        ELSE [err |-> "", at |-> IF hits = {} THEN 0 ELSE MaxOf(hits)]

\* the hard mapping of __get_fallback_site: the site name asked for
fallback_site_name(company_name) ==
    LET lowered == Lower(company_name)
    IN  IF Contains(lowered, <<"akademie">>) THEN <<"547", " ", "Akademie">>
        ELSE IF Contains(lowered, <<"oper">>) \/ Contains(lowered, <<"medienabt">>)
             THEN <<"530", " ", "Verwaltung", "/", "Oper">>
        ELSE IF Contains(lowered, <<"schauspi">>) THEN <<"529", " ", "Schauspielhaus">>
        ELSE IF Contains(lowered, <<"ballett">>) THEN <<"551", " ", "Ballettzentrum">>
        ELSE DEFAULT_SITE_NAME

\* a site as the device stage passes it on: the dict nested in a location, the
\* Record of the fallback site, or the bare str DEFAULT_SITE_NAME
SiteValue(type, id) == [type |-> type, id |-> id]

\* __get_fallback_site(company_name): [w, site]
get_fallback_site(w, company_name) ==
    LET wanted == fallback_site_name(company_name)
        found == get_one(w.netbox["sites"], LAMBDA item : item.name = wanted)
    IN  IF found.err # ""
        THEN [w |-> Raise(w, found.err), site |-> SiteValue("Record", 0)]
        ELSE IF found.at # 0
             THEN [w |-> w, site |-> SiteValue("Record", w.netbox["sites"][found.at].id)]
             ELSE LET w2 == Create(w, "sites",
                                   [name |-> DEFAULT_SITE_NAME,
                                    slug |-> slugify(DEFAULT_SITE_NAME),
                                    description |-> <<Paragraph("Default Site", 0, "")>>])
                  IN  [w |-> w2, site |-> SiteValue("Record", Created(w2, "sites").id)]

\* the role name of a category: cut at the first hyphen when hypos > 1
role_name(category_name) ==
    LET hypos == Find(category_name, "-")
    IN  IF hypos > 1 THEN Strip(Prefix(category_name, hypos)) ELSE category_name

\* a faulty role lookup: a created role is not added to the list of the stage
get_role_without_append(w, netbox_roles, snipe_asset) ==
    LET category_name == role_name(snipe_asset.category.name)
        by_id == get_customfield_from_dict_list(netbox_roles, snipe_asset.category.id)
        by_name == get_by_name(netbox_roles, category_name)
    IN  IF by_id # 0
        THEN [w |-> w, netbox_roles |-> netbox_roles, role |-> netbox_roles[by_id]]
        ELSE IF by_name # 0
             THEN [w |-> Update(w, "device_roles",
                                [id |-> netbox_roles[by_name].id,
                                 snipe_object_id |-> snipe_asset.category.id]),
                   netbox_roles |-> netbox_roles,
                   role |-> netbox_roles[by_name]]
             ELSE LET w2 == Create(w, "device_roles",
                                   [name |-> category_name,
                                    slug |-> slugify(category_name)])
                  IN  [w |-> w2,
                       netbox_roles |-> netbox_roles,
                       role |-> Created(w2, "device_roles")]

\* __get_role_from_category: [w, netbox_roles, role]
get_role_from_category(w, netbox_roles, snipe_asset) ==
    LET category_name == role_name(snipe_asset.category.name)
        by_id == get_customfield_from_dict_list(netbox_roles, snipe_asset.category.id)
        by_name == get_by_name(netbox_roles, category_name)
    IN  IF by_id # 0
        THEN [w |-> w, netbox_roles |-> netbox_roles, role |-> netbox_roles[by_id]]
        ELSE IF by_name # 0
             THEN [w |-> Update(w, "device_roles",
                                [id |-> netbox_roles[by_name].id,
                                 snipe_object_id |-> snipe_asset.category.id]),
                   netbox_roles |-> netbox_roles,
                   role |-> netbox_roles[by_name]]
             ELSE LET w2 == Create(w, "device_roles",
                                   [name |-> category_name,
                                    slug |-> slugify(category_name)])
                  IN  [w |-> w2,
                       netbox_roles |-> Append(netbox_roles, Created(w2, "device_roles")),
                       role |-> Created(w2, "device_roles")]

\* oldname of __update_device: the stored name with a trailing asset tag cut off
stripped_name(oldname, asset_tag) ==
    IF oldname # NoneStr /\ RFind(oldname, asset_tag) > 1
    THEN Prefix(oldname, RFind(oldname, asset_tag) - 1)
    ELSE oldname

\* a faulty check_name: an empty source name is taken as it is
check_name_as_given(name) == name

\* check_name of __update_device: an empty source name counts as None
check_name_of(name) == IF Len(name) > 0 THEN name ELSE NoneStr

\* a faulty disambiguation: the asset tag is left out
name_without_tag(name, asset_tag) == name

\* f"{name} {asset_tag}"
name_with_tag(name, asset_tag) == name \o <<" ">> \o asset_tag

\* "if <differs>: update_dict = update_dict | {...}"
Changed(differs, changes) == IF differs THEN changes ELSE <<>>

\* the attributes __update_device compares one by one, name left out
device_diff(nb_device, snipe_device, nb_role, nb_site, nb_tenant, nb_device_type, update_custom_field_id) ==
    Merge(Merge(Merge(Merge(Merge(Merge(Merge(
        [id |-> nb_device.id],
        Changed(update_custom_field_id, [snipe_object_id |-> snipe_device.id])),
        Changed(nb_device.asset_tag # snipe_device.asset_tag,
                [asset_tag |-> snipe_device.asset_tag])),
        Changed(nb_device.serial # snipe_device.serial, [serial |-> snipe_device.serial])),
        Changed(nb_device.site # nb_site.id, [site |-> nb_site.id])),
        Changed(nb_device.role # nb_role, [role |-> nb_role])),
        Changed(nb_device.tenant # nb_tenant, [tenant |-> nb_tenant])),
        Changed(nb_device.device_type # nb_device_type, [device_type |-> nb_device_type]))

\* __update_device; nb_role, nb_tenant, nb_device_type are ids, 0 for None
update_device(w, nb_device, snipe_device, nb_role, nb_site, nb_tenant, nb_device_type, update_custom_field_id, time) ==
    IF \/ nb_device.site = None \/ nb_site.type = "str"     \* ...["site"]["id"], nb_site["id"]
       \/ nb_device.role = None
       \/ nb_device.tenant = None \/ nb_tenant = None       \* ...["tenant"]["id"], nb_tenant["id"]
       \/ nb_device_type = None
    THEN Raise(w, "TypeError")
    ELSE LET diff == device_diff(nb_device, snipe_device, nb_role, nb_site, nb_tenant,
                                 nb_device_type, update_custom_field_id)
             oldname == stripped_name(nb_device.name, snipe_device.asset_tag)
             check_name == check_name_of(snipe_device.name)
             conflict == get_one(w.netbox["devices"],
                                 LAMBDA item : /\ item.name = check_name
                                               /\ item.site = nb_site.id
                                               /\ item.tenant = nb_tenant)
             name == IF check_name = NoneStr THEN NoneStr
                     ELSE IF conflict.at # 0
                          THEN name_with_tag(check_name, snipe_device.asset_tag)
                          ELSE snipe_device.name
             update_dict == IF oldname # check_name
                            THEN Merge(diff, [name |-> name]) ELSE diff
         IN  IF oldname # check_name /\ check_name # NoneStr /\ conflict.err # ""
             THEN Raise(w, conflict.err)
             ELSE IF Cardinality(DOMAIN update_dict) > 1
                  THEN Update(w, "devices",
                           Merge(update_dict,
                                 [comments |-> gen_update_comment(
                                      nb_device.comments,
                                      IF "snipe_object_id" \in DOMAIN update_dict
                                      THEN "Snipe ID" ELSE "Values",
                                      time)]))
                  ELSE w

\* __sync_device: [w, netbox_devices]
sync_device(w, nb_device_type, nb_tenant, netbox_devices, nb_role, nb_site, snipe_asset, time) ==
    LET by_id == get_customfield_from_dict_list(netbox_devices, snipe_asset.id)
        by_tag == FirstIndex(netbox_devices,
                             LAMBDA item : item.asset_tag = snipe_asset.asset_tag)
        same_name == {k \in 1..Len(netbox_devices) :
                         /\ netbox_devices[k].name = snipe_asset.name
                         /\ netbox_devices[k].tenant # None}
        by_name == FirstIndex(netbox_devices,
                              LAMBDA item : /\ item.name = snipe_asset.name
                                            /\ item.tenant # None
                                            /\ item.tenant = nb_tenant)
        name == IF by_name # 0
                THEN name_with_tag(snipe_asset.name, snipe_asset.asset_tag)
                ELSE snipe_asset.name
        new_device == [name |-> name,
                       comments |-> initial_notes(snipe_asset.notes),
                       description |-> desc(time),
                       asset_tag |-> snipe_asset.asset_tag,
                       role |-> nb_role,
                       serial |-> snipe_asset.serial,
                       device_type |-> nb_device_type,
                       tenant |-> nb_tenant,
                       snipe_object_id |-> snipe_asset.id]
    IN  IF by_id # 0
        THEN [w |-> update_device(w, netbox_devices[by_id], snipe_asset, nb_role, nb_site,
                                  nb_tenant, nb_device_type, FALSE, time),
              netbox_devices |-> netbox_devices]
        ELSE IF by_tag # 0
        THEN [w |-> update_device(w, netbox_devices[by_tag], snipe_asset, nb_role, nb_site,
                                  nb_tenant, nb_device_type, TRUE, time),
              netbox_devices |-> netbox_devices]
        ELSE IF (nb_tenant = None /\ same_name # {}) \/ nb_device_type = None
        THEN [w |-> Raise(w, "TypeError"),          \* nb_tenant["id"], nb_device_type["id"]
              netbox_devices |-> netbox_devices]
        ELSE LET w2 == Create(w, "devices",
                              IF nb_site.type # "str"               \* "id" in nb_site
                              THEN Merge(new_device, [site |-> nb_site.id])
                              ELSE new_device)
             IN  [w |-> w2,
                  netbox_devices |-> Append(netbox_devices, Created(w2, "devices"))]

\* a faulty resolution: the tenant is looked up by the name of the company
sync_asset_tenant_by_name(w, lists, snipe_asset, time) ==
    LET type_at == get_customfield_from_dict_list(lists.device_types, snipe_asset.model.id)
        nb_device_type == IF type_at = 0 THEN None ELSE lists.device_types[type_at].id
        location == IF snipe_asset.location # None
                    THEN get_customfield_from_dict_list(lists.locations,
                                                        snipe_asset.location)
                    ELSE IF snipe_asset.rtd_location # None
                         THEN get_customfield_from_dict_list(lists.locations,
                                                             snipe_asset.rtd_location)
                         ELSE 0
        sited == IF location # 0
                 THEN [w |-> w, site |-> SiteValue("dict", lists.locations[location].site)]
                 ELSE IF snipe_asset.company.id # None
                      THEN get_fallback_site(w, snipe_asset.company.name)
                      ELSE [w |-> w, site |-> SiteValue("str", 0)]
        tenant_at == IF snipe_asset.company.id # None
                     THEN get_by_name(lists.tenants, snipe_asset.company.name)
                     ELSE 0
        nb_tenant == IF tenant_at = 0 THEN None ELSE lists.tenants[tenant_at].id
    IN  IF sited.w.err # ""
        THEN [w |-> sited.w, netbox_roles |-> lists.device_roles,
              netbox_devices |-> lists.devices]
        ELSE LET roled == get_role_from_category(sited.w, lists.device_roles, snipe_asset)
                 synced == sync_device(roled.w, nb_device_type, nb_tenant, lists.devices,
                                       roled.role.id, sited.site, snipe_asset, time)
             IN  [w |-> synced.w, netbox_roles |-> roled.netbox_roles,
                  netbox_devices |-> synced.netbox_devices]

\* body of the loop of sync_assets_to_devices: [w, netbox_roles, netbox_devices]
sync_asset(w, lists, snipe_asset, time) ==
    LET type_at == get_customfield_from_dict_list(lists.device_types, snipe_asset.model.id)
        nb_device_type == IF type_at = 0 THEN None ELSE lists.device_types[type_at].id
        location == IF snipe_asset.location # None
                    THEN get_customfield_from_dict_list(lists.locations,
                                                        snipe_asset.location)
                    ELSE IF snipe_asset.rtd_location # None
                         THEN get_customfield_from_dict_list(lists.locations,
                                                             snipe_asset.rtd_location)
                         ELSE 0
        sited == IF location # 0
                 THEN [w |-> w, site |-> SiteValue("dict", lists.locations[location].site)]
                 ELSE IF snipe_asset.company.id # None
                      THEN get_fallback_site(w, snipe_asset.company.name)
                      ELSE [w |-> w, site |-> SiteValue("str", 0)]
        tenant_at == IF snipe_asset.company.id # None
                     THEN get_customfield_from_dict_list(lists.tenants,
                                                         snipe_asset.company.id)
                     ELSE 0
        nb_tenant == IF tenant_at = 0 THEN None ELSE lists.tenants[tenant_at].id
    IN  IF sited.w.err # ""
        THEN [w |-> sited.w, netbox_roles |-> lists.device_roles,
              netbox_devices |-> lists.devices]
        ELSE LET roled == get_role_from_category(sited.w, lists.device_roles, snipe_asset)
                 synced == sync_device(roled.w, nb_device_type, nb_tenant, lists.devices,
                                       roled.role.id, sited.site, snipe_asset, time)
             IN  [w |-> synced.w, netbox_roles |-> roled.netbox_roles,
                  netbox_devices |-> synced.netbox_devices]

-----------------------------------------------------------------------------
(* The source collaborator (src/snipe.py) *)

\* ASCII order of the atoms that occur in location names
Alphabet == <<" ", "-", "/", "A", "a", "b", "c", "d", "e">>

Rank(a) == FirstIndex(Alphabet, LAMBDA x : x = a)

\* s < t for python str
RECURSIVE StrLess(_, _)
StrLess(s, t) ==
    IF t = <<>> THEN FALSE
    ELSE IF s = <<>> THEN TRUE
    ELSE IF Head(s) = Head(t) THEN StrLess(Tail(s), Tail(t))
    ELSE Rank(Head(s)) < Rank(Head(t))

\* the order sorted(rows, key=lambda d: d[key]) compares by
KeyLess(x, y, key) == IF key = "id" THEN x.id < y.id ELSE StrLess(x.name, y.name)

RECURSIVE InsertSorted(_, _, _)
InsertSorted(sorted, row, key) ==
    IF sorted = <<>> THEN <<row>>
    ELSE IF KeyLess(row, Head(sorted), key)
         THEN <<row>> \o sorted
         ELSE <<Head(sorted)>> \o InsertSorted(Tail(sorted), row, key)

\* sorted(rows, key=lambda d: d[key]): stable
RECURSIVE Sorted(_, _)
Sorted(rows, key) ==
    IF rows = <<>> THEN <<>>
    ELSE InsertSorted(Sorted(SubSeq(rows, 1, Len(rows) - 1), key), rows[Len(rows)], key)

\* Snipe.get_locations: the rows sorted by name
get_locations(rows) == Sorted(rows, "name")

\* "if model["manufacturer"] not in manufacturers: manufacturers.append(...)"
RECURSIVE manufacturers_in(_, _)
manufacturers_in(models, acc) ==
    IF models = <<>> THEN acc
    ELSE manufacturers_in(
             Tail(models),
             IF \E k \in 1..Len(acc) : acc[k] = Head(models).manufacturer
             THEN acc ELSE Append(acc, Head(models).manufacturer))

\* Snipe.get_models_and_manufacturers_with_mac: both sorted by id
get_manufacturers(rows) == Sorted(manufacturers_in(rows, <<>>), "id")

get_models(rows) == Sorted(rows, "id")

-----------------------------------------------------------------------------
(* main.py: the pass, one stage after the other *)

NoLists == [k \in Kinds |-> <<>>]

\* a faulty listing: the stage does not see what the target holds
listed_nothing(kinds) == [k \in Kinds |-> <<>>]

\* list(self.netbox.<kind>.all()) for the kinds a stage lists
Listed(kinds) == [k \in Kinds |-> IF k \in kinds THEN netbox[k] ELSE <<>>]

\* what every step does with the outcome of its calls
Outcome(w, next_pc, next_i) ==
    /\ netbox' = w.netbox
    /\ calls' = w.calls
    /\ err' = w.err
    /\ pc' = IF w.err # "" THEN "crashed" ELSE next_pc
    /\ i' = IF w.err # "" THEN i ELSE next_i

Here == World(netbox, calls)

MaxPasses == 2

\* ensure_netbox_custom_field(lock): the field is created, or updated if present
ensure_netbox_custom_field(field, lock) == IF lock THEN "read-only" ELSE "read-write"

\* main.py 25-29: a run starts; the custom field is set up, the tenants are listed
main ==
    /\ pc \in {"start", "done", "crashed"}
    /\ pass < MaxPasses
    /\ pass' = pass + 1
    /\ pc' = "tenants"
    /\ i' = 1
    /\ calls' = <<>>
    /\ err' = ""
    /\ last_run' = IF pc = "start" THEN "none" ELSE pc
    /\ custom_field' = ensure_netbox_custom_field(custom_field, FALSE)
    /\ snap' = Listed({"tenants"})
    /\ sub_locations' = <<>>
    /\ updates' = <<>>
    /\ UNCHANGED <<allow_updates, allow_linking, snipe, netbox>>

Frame == UNCHANGED <<allow_updates, allow_linking, snipe, pass, last_run, custom_field>>

sync_companies_to_tenants ==
    /\ pc = "tenants"
    /\ i <= Len(snipe.companies)
    /\ Outcome(sync_company(Here, snap.tenants, snipe.companies[i],
                            allow_linking, allow_updates, pass),
               "tenants", i + 1)
    /\ UNCHANGED <<snap, sub_locations, updates>>
    /\ Frame

\* a faulty order: the device types are handled before the manufacturers
tenants_done_out_of_order ==
    /\ pc = "tenants"
    /\ i > Len(snipe.companies)
    /\ pc' = "device_types"
    /\ i' = 1
    /\ snap' = Listed({"device_types", "manufacturers"})
    /\ UNCHANGED <<netbox, calls, err, sub_locations, updates>>
    /\ Frame

\* main.py 31-32
tenants_done ==
    /\ pc = "tenants"
    /\ i > Len(snipe.companies)
    /\ pc' = "manufacturers"
    /\ i' = 1
    /\ snap' = Listed({"manufacturers"})
    /\ UNCHANGED <<netbox, calls, err, sub_locations, updates>>
    /\ Frame

sync_manufacturers ==
    /\ pc = "manufacturers"
    /\ i <= Len(get_manufacturers(snipe.models))
    /\ Outcome(sync_manufacturer(Here, snap.manufacturers,
                                 get_manufacturers(snipe.models)[i],
                                 allow_linking, allow_updates, pass),
               "manufacturers", i + 1)
    /\ UNCHANGED <<snap, sub_locations, updates>>
    /\ Frame

\* main.py 33
manufacturers_done ==
    /\ pc = "manufacturers"
    /\ i > Len(get_manufacturers(snipe.models))
    /\ pc' = "device_types"
    /\ i' = 1
    /\ snap' = Listed({"device_types", "manufacturers"})
    /\ UNCHANGED <<netbox, calls, err, sub_locations, updates>>
    /\ Frame

sync_models_to_device_types ==
    /\ pc = "device_types"
    /\ i <= Len(snipe.models)
    /\ Outcome(sync_model(Here, snap.device_types, snap.manufacturers,
                          get_models(snipe.models)[i],
                          allow_linking, allow_updates, pass),
               "device_types", i + 1)
    /\ UNCHANGED <<snap, sub_locations, updates>>
    /\ Frame

\* main.py 35-36
device_types_done ==
    /\ pc = "device_types"
    /\ i > Len(snipe.models)
    /\ pc' = "sites"
    /\ i' = 1
    /\ snap' = Listed({"sites"})
    /\ UNCHANGED <<netbox, calls, err, sub_locations, updates>>
    /\ Frame

sync_top_locations_to_sites ==
    /\ pc = "sites"
    /\ i <= Len(top_locations(get_locations(snipe.locations)))
    /\ Outcome(sync_top_location(Here, snap.sites,
                                 top_locations(get_locations(snipe.locations))[i],
                                 allow_linking, allow_updates, pass),
               "sites", i + 1)
    /\ UNCHANGED <<snap, sub_locations, updates>>
    /\ Frame

\* main.py 37, sync_locations 757-780
sites_done ==
    /\ pc = "sites"
    /\ i > Len(top_locations(get_locations(snipe.locations)))
    /\ pc' = "locations"
    /\ i' = 1
    /\ snap' = Listed({"locations", "sites"})
    /\ sub_locations' = sub_locations_of(get_locations(snipe.locations), netbox["sites"])
    /\ UNCHANGED <<netbox, calls, err, updates>>
    /\ Frame

\* sync_locations 782-788
sync_locations ==
    /\ pc = "locations"
    /\ i <= Len(with_parent(get_locations(snipe.locations)))
    /\ Outcome(sync_location(Here, snap.sites, snap.locations,
                             with_parent(get_locations(snipe.locations)),
                             with_parent(get_locations(snipe.locations))[i],
                             allow_linking, allow_updates, pass),
               "locations", i + 1)
    /\ UNCHANGED <<snap, sub_locations, updates>>
    /\ Frame

\* sync_locations 790, __sync_location_relationships 699-701
locations_done ==
    /\ pc = "locations"
    /\ i > Len(with_parent(get_locations(snipe.locations)))
    /\ pc' = "relationships"
    /\ i' = 1
    /\ snap' = Listed({"locations"})
    /\ updates' = <<>>
    /\ UNCHANGED <<netbox, calls, err, sub_locations>>
    /\ Frame

\* __sync_location_relationships 703-742
\* a faulty fixup: every parent change is sent as soon as it is found
sync_location_relationships_at_once ==
    /\ pc = "relationships"
    /\ i <= Len(sub_locations)
    /\ LET r == sync_location_relationship(snap.locations, sub_locations[i], <<>>,
                                           allow_updates)
       IN  /\ updates' = updates
           /\ Outcome(Raise(update_all(Here, "locations", r.updates), r.err),
                      "relationships", i + 1)
    /\ UNCHANGED <<snap, sub_locations>>
    /\ Frame

sync_location_relationships ==
    /\ pc = "relationships"
    /\ i <= Len(sub_locations)
    /\ LET r == sync_location_relationship(snap.locations, sub_locations[i], updates,
                                           allow_updates)
       IN  /\ updates' = r.updates
           /\ Outcome(Raise(Here, r.err), "relationships", i + 1)
    /\ UNCHANGED <<snap, sub_locations>>
    /\ Frame

\* __sync_location_relationships 745, main.py 39-40, sync_assets_to_devices 853-857
relationships_done ==
    /\ pc = "relationships"
    /\ i > Len(sub_locations)
    /\ LET w == update_all(Here, "locations", updates)
       IN  /\ netbox' = w.netbox
           /\ calls' = w.calls
           /\ snap' = [k \in Kinds |->
                          IF k \in {"devices", "tenants", "locations", "device_roles",
                                    "device_types"}
                          THEN w.netbox[k] ELSE <<>>]
    /\ pc' = "devices"
    /\ i' = 1
    /\ UNCHANGED <<err, sub_locations, updates>>
    /\ Frame

sync_assets_to_devices ==
    /\ pc = "devices"
    /\ i <= Len(snipe.assets)
    /\ LET r == sync_asset(Here, snap, snipe.assets[i], pass)
       IN  /\ snap' = [snap EXCEPT !.device_roles = r.netbox_roles,
                                   !.devices = r.netbox_devices]
           /\ Outcome(r.w, "devices", i + 1)
    /\ UNCHANGED <<sub_locations, updates>>
    /\ Frame

\* the run ends
devices_done ==
    /\ pc = "devices"
    /\ i > Len(snipe.assets)
    /\ pc' = "done"
    /\ UNCHANGED <<netbox, calls, err, snap, i, sub_locations, updates>>
    /\ Frame

Next ==
    \/ main
    \/ sync_companies_to_tenants
    \/ tenants_done
    \/ sync_manufacturers
    \/ manufacturers_done
    \/ sync_models_to_device_types
    \/ device_types_done
    \/ sync_top_locations_to_sites
    \/ sites_done
    \/ sync_locations
    \/ locations_done
    \/ sync_location_relationships
    \/ relationships_done
    \/ sync_assets_to_devices
    \/ devices_done

-----------------------------------------------------------------------------
(* Initial states: the flags, a source, and the target as earlier runs or an *)
(* operator left it.  Each family varies the records of one stage.  A target *)
(* table never holds a linkage key twice, and names are unique where the     *)
(* target keeps them unique (syncer.py 191, 284, 501, 1019); two locations   *)
(* of one site may share a name when their parents differ.  An empty target  *)
(* has no custom field yet, every other target has the one an earlier run    *)
(* made.                                                                     *)

MaxRecords == 2    \* source records of the kind a family varies
MaxLocations == 3  \* source locations of the location family

Names == {<<"a">>, <<"b">>}

Manual == <<Paragraph("manual", 0, "")>>

\* the ids the target assigned: id = position
WithIds(table) == [k \in 1..Len(table) |-> Merge(table[k], [id |-> k])]

\* no two records of a table agree on what P compares
Distinct(table, Same(_, _)) ==
    \A j, k \in 1..Len(table) : j # k => ~Same(table[j], table[k])

SameKey(x, y) == x.snipe_object_id # None /\ x.snipe_object_id = y.snipe_object_id

SameName(x, y) == x.name = y.name

\* the tables of at most n of the rows
Tables(rows, n) == UNION {[1..k -> rows] : k \in 0..n}

\* tables of a kind whose names are unique
NamedTables(rows) ==
    {WithIds(t) : t \in {u \in Tables(rows, 2) : Distinct(u, SameKey) /\ Distinct(u, SameName)}}

\* source lists: ids 1..k in the order the API lists them
Lists(Row(_, _), choices, n) ==
    UNION {{[j \in 1..k |-> Row(j, f[j])] : f \in [1..k -> choices]} : k \in 0..n}

NoSource == [companies |-> <<>>, models |-> <<>>, locations |-> <<>>, assets |-> <<>>]

Company(id, name) == [id |-> id, name |-> name]

NamedRows(kind) ==
    {Merge(Blank(kind),
           [name |-> n, slug |-> slugify(n), description |-> Manual,
            snipe_object_id |-> key]) :
        n \in Names, key \in 0..MaxRecords}

\* companies against tenants
TenantSources ==
    {[NoSource EXCEPT !.companies = cs] : cs \in Lists(Company, Names, MaxRecords)}

TenantTargets ==
    {[NoLists EXCEPT !["tenants"] = t] : t \in NamedTables(NamedRows("tenants"))}

InitTenants == snipe \in TenantSources /\ netbox \in TenantTargets

SourceManufacturers == {[id |-> 1, name |-> <<"a">>], [id |-> 2, name |-> <<"b">>]}

Model(id, c) ==
    [id |-> id, name |-> c.name, model_number |-> <<"n1">>, notes |-> "",
     manufacturer |-> c.manufacturer]

\* the manufacturers of the models against manufacturers, no device type yet
ManufacturerSources ==
    {[NoSource EXCEPT !.models = ms] :
        ms \in Lists(Model,
                     {[name |-> <<"a">>, manufacturer |-> m] : m \in SourceManufacturers},
                     MaxRecords)}

ManufacturerTargets ==
    {[NoLists EXCEPT !["manufacturers"] = t] :
        t \in NamedTables(NamedRows("manufacturers"))}

InitManufacturers == snipe \in ManufacturerSources /\ netbox \in ManufacturerTargets

\* both source manufacturers as an earlier run left them
SyncedManufacturers ==
    WithIds(<<Merge(Blank("manufacturers"),
                    [name |-> <<"a">>, slug |-> <<"a">>, description |-> desc(0),
                     snipe_object_id |-> 1]),
              Merge(Blank("manufacturers"),
                    [name |-> <<"b">>, slug |-> <<"b">>, description |-> desc(0),
                     snipe_object_id |-> 2])>>)

DeviceTypeRows ==
    {Merge(Blank("device_types"),
           [model |-> n, slug |-> slugify(n), description |-> Manual,
            comments |-> Manual, part_number |-> v[1], manufacturer |-> v[2],
            snipe_object_id |-> key]) :
        n \in Names, key \in 0..MaxRecords,
        v \in {<<<<"n1">>, 1>>, <<<<"n0">>, 1>>, <<<<"n1">>, 2>>}}

\* models against device types, the manufacturers already linked
DeviceTypeSources ==
    {[NoSource EXCEPT !.models = ms] :
        ms \in Lists(Model,
                     {[name |-> <<"a">>, manufacturer |-> [id |-> 1, name |-> <<"a">>]],
                      [name |-> <<"b">>, manufacturer |-> [id |-> 1, name |-> <<"a">>]],
                      [name |-> <<"a">>, manufacturer |-> [id |-> 2, name |-> <<"b">>]]},
                     MaxRecords)}

DeviceTypeTargets ==
    {[NoLists EXCEPT !["manufacturers"] = SyncedManufacturers,
                     !["device_types"] = WithIds(t)] :
        t \in Tables(DeviceTypeRows, 1)}

InitDeviceTypes == snipe \in DeviceTypeSources /\ netbox \in DeviceTypeTargets

Location(id, name, parent) == [id |-> id, name |-> name, parent |-> parent]

TopLocation(id, name) == Location(id, name, None)

SiteRows ==
    {Merge(r, [comments |-> Manual]) : r \in NamedRows("sites")}

\* top-level locations against sites
SiteSources ==
    {[NoSource EXCEPT !.locations = ls] : ls \in Lists(TopLocation, Names, MaxRecords)}

SiteTargets == {[NoLists EXCEPT !["sites"] = t] : t \in NamedTables(SiteRows)}

InitSites == snipe \in SiteSources /\ netbox \in SiteTargets

\* location k is named after the k-th letter, so get_locations keeps the order
LocationName(k) == <<Alphabet[k + 4]>>

\* the forests over locations 1..k: the parent of a location has a smaller id
LocationLists(n) ==
    UNION {{[j \in 1..k |-> Location(j, LocationName(j), f[j])] :
               f \in {g \in [1..k -> 0..n] : \A j \in 1..k : g[j] < j}} :
           k \in 0..n}

\* two top-level locations with one location below each
TwoBranches ==
    <<Location(1, LocationName(1), None), Location(2, LocationName(2), None),
      Location(3, LocationName(3), 1), Location(4, LocationName(4), 2)>>

\* a top-level location, a location below it and two locations below that one
TwoLeaves ==
    <<Location(1, LocationName(1), None), Location(2, LocationName(2), 1),
      Location(3, LocationName(3), 2), Location(4, LocationName(4), 2)>>

LocationSources ==
    {[NoSource EXCEPT !.locations = ls] :
        ls \in LocationLists(MaxLocations) \cup {TwoBranches, TwoLeaves}}

Site(name, key) ==
    Merge(Blank("sites"),
          [name |-> name, slug |-> slugify(name), description |-> Manual,
           comments |-> Manual, snipe_object_id |-> key])

LocationRow(name, site, parent, key) ==
    Merge(Blank("locations"),
          [name |-> name, slug |-> slugify(name), description |-> Manual,
           site |-> site, parent |-> parent, snipe_object_id |-> key])

\* site "a", linked to location 1 or not, or the sites "a" and "b" an earlier
\* run made for the locations 1 and 2, with no location, one location, the
\* locations 2 and 3 of an earlier run, two locations of one name, which the
\* target allows in one site when their parents differ, or location 3 below a
\* location other than the one linked to its source parent
LocationTargets ==
    {NoLists} \cup
    {[NoLists EXCEPT !["sites"] = WithIds(sites),
                     !["locations"] = WithIds(t)] :
        sites \in {<<Site(<<"a">>, 0)>>, <<Site(<<"a">>, 1)>>,
                   <<Site(<<"a">>, 1), Site(<<"b">>, 2)>>},
        t \in {<<>>}
              \cup {<<LocationRow(n, 1, None, k)>> : n \in {<<"b">>, <<"c">>}, k \in {0, 2, 3}}
              \cup {<<LocationRow(<<"b">>, 1, None, 2), LocationRow(<<"c">>, 1, p, 3)>> :
                        p \in {0, 1}}
              \* entered by an operator: a location "b" and one of that name below it
              \cup {<<LocationRow(<<"b">>, 1, None, 0), LocationRow(<<"b">>, 1, 1, 0)>>}
              \* moved by an operator: location 3 below a location "d" of the target
              \cup {<<LocationRow(<<"d">>, 1, None, 0), LocationRow(<<"b">>, 1, None, 2),
                      LocationRow(<<"c">>, 1, 1, 3)>>}}

InitLocations == snipe \in LocationSources /\ netbox \in LocationTargets

\* the source the device families share: one company, one model, a site
\* location and a location below it
BaseSource ==
    [companies |-> <<Company(1, <<"a">>)>>,
     models |-> <<Model(1, [name |-> <<"a">>, manufacturer |-> [id |-> 1, name |-> <<"a">>]])>>,
     locations |-> <<Location(1, <<"a">>, None), Location(2, <<"b">>, 1)>>,
     assets |-> <<>>]

\* the target an earlier run left for BaseSource
SyncedBase ==
    [NoLists EXCEPT
        !["tenants"] = WithIds(<<Merge(Blank("tenants"),
                                       [name |-> <<"a">>, slug |-> <<"a">>,
                                        description |-> desc(0), snipe_object_id |-> 1])>>),
        !["manufacturers"] = WithIds(<<Merge(Blank("manufacturers"),
                                             [name |-> <<"a">>, slug |-> <<"a">>,
                                              description |-> desc(0),
                                              snipe_object_id |-> 1])>>),
        !["device_types"] = WithIds(<<Merge(Blank("device_types"),
                                            [model |-> <<"a">>, slug |-> <<"a">>,
                                             description |-> desc(0),
                                             part_number |-> <<"n1">>, manufacturer |-> 1,
                                             comments |-> initial_notes(""),
                                             snipe_object_id |-> 1])>>),
        !["sites"] = WithIds(<<Merge(Blank("sites"),
                                     [name |-> <<"a">>, slug |-> <<"a">>,
                                      description |-> desc(0), snipe_object_id |-> 1])>>),
        !["locations"] = WithIds(<<Merge(Blank("locations"),
                                         [name |-> <<"b">>, slug |-> <<"b">>,
                                          description |-> desc(0), site |-> 1,
                                          snipe_object_id |-> 2])>>)]

\* asset tags are unique in the source
Tag(id) == <<<<"t1", "t2", "t3", "t4">>[id]>>

NoCompany == [id |-> None, name |-> NoneStr]

Category(id, name) == [id |-> id, name |-> name]

Asset(id, c) ==
    [id |-> id,
     name |-> CASE c.name = "tagged" -> <<"pc", "-">> \o Tag(id)
                [] c.name = "empty" -> <<>>
                [] OTHER -> <<"pc">>,
     asset_tag |-> Tag(id),
     serial |-> <<"s1">>,
     notes |-> "",
     category |-> c.category,
     model |-> [id |-> 1],
     location |-> c.location,
     rtd_location |-> c.rtd_location,
     company |-> c.company]

\* the role a run created for the category name "pc": it carries no linkage key
CreatedRole == Merge(Blank("device_roles"), [name |-> <<"pc">>, slug |-> <<"pc">>])

DeviceRow(name, asset_tag, key, serial) ==
    Merge(Blank("devices"),
          [name |-> name, comments |-> Manual, description |-> Manual,
           asset_tag |-> asset_tag, role |-> 1, serial |-> serial, device_type |-> 1,
           tenant |-> 1, site |-> 1, snipe_object_id |-> key])

WithDevice(row) ==
    [SyncedBase EXCEPT !["device_roles"] = WithIds(<<CreatedRole>>),
                       !["devices"] = WithIds(<<row>>)]

\* assets that differ in name (plain, holding the asset tag, or empty) and
\* category (a hyphen after a word, after one letter, or none), below location
\* 2, of company 1
NamedAssetSources ==
    {[BaseSource EXCEPT !.assets = as] :
        as \in Lists(Asset,
                     {[name |-> v[1], category |-> v[2], location |-> 2,
                       rtd_location |-> None, company |-> Company(1, <<"a">>)] :
                         v \in ({"plain", "tagged"}
                                   \X {Category(1, <<"pc", " ", "-", " ", "x">>),
                                       Category(2, <<"pc">>)})
                               \cup {<<"empty", Category(2, <<"pc">>)>>,
                                     <<"plain", Category(3, <<"c", "-", "x">>)>>}},
                     MaxRecords)}

NamedAssetTargets ==
    {NoLists, SyncedBase} \cup
    {WithDevice(row) :
        row \in {DeviceRow(<<"pc">>, Tag(1), 1, <<"s1">>),
                 DeviceRow(<<"pc">>, Tag(1), 1, <<"s0">>),
                 DeviceRow(<<"pc">>, Tag(1), 0, <<"s1">>),
                 DeviceRow(<<"pc">>, Tag(1), 2, <<"s1">>),
                 DeviceRow(<<"pc">>, NoneStr, 0, <<"s1">>),
                 DeviceRow(<<"pc", " ", "t1">>, Tag(1), 1, <<"s1">>),
                 \* entered by an operator with its asset tag, without a tenant
                 [DeviceRow(<<"pc">>, Tag(1), 0, <<"s1">>) EXCEPT !.tenant = None]}}

InitNamedAssets == snipe \in NamedAssetSources /\ netbox \in NamedAssetTargets

\* assets that differ in what they refer to: location, fallback location, company
ReferringAssetSources ==
    {[BaseSource EXCEPT !.assets = as] :
        as \in Lists(Asset,
                     {[name |-> "plain", category |-> Category(2, <<"pc">>),
                       location |-> r[1], rtd_location |-> r[2], company |-> r[3]] :
                         r \in {<<None, None, NoCompany>>,
                                <<None, None, Company(1, <<"a">>)>>,
                                <<2, None, Company(1, <<"a">>)>>,
                                <<2, None, NoCompany>>,
                                <<1, None, Company(1, <<"a">>)>>,
                                <<None, 2, Company(1, <<"a">>)>>}},
                     MaxRecords)}

\* the target of an earlier run, also with the tenant or the device type as an
\* operator entered it, under the name of the source record and without a key
ReferringAssetTargets ==
    {NoLists, SyncedBase, WithDevice(DeviceRow(<<"pc">>, Tag(1), 1, <<"s0">>)),
     [SyncedBase EXCEPT !["tenants"][1].snipe_object_id = None],
     [SyncedBase EXCEPT !["device_types"][1].snipe_object_id = None]}

InitReferringAssets == snipe \in ReferringAssetSources /\ netbox \in ReferringAssetTargets

\* an asset without a location
Unplaced(id, company) ==
    Asset(id, [name |-> "plain", category |-> Category(2, <<"pc">>),
               location |-> None, rtd_location |-> None, company |-> company])

\* an asset of the company "Oper" between two assets of the company "a"
ThreeUnplaced ==
    <<Unplaced(1, Company(1, <<"a">>)), Unplaced(2, Company(2, <<"Oper">>)),
      Unplaced(3, Company(1, <<"a">>))>>

\* assets without a location, of the company "a" and of a company whose name
\* holds one of the words __get_fallback_site maps to a site of its own
FallbackAssetSources ==
    {[BaseSource EXCEPT !.companies = <<Company(1, <<"a">>), Company(2, <<"Oper">>)>>,
                        !.assets = as] :
        as \in Lists(Asset,
                     {[name |-> "plain", category |-> Category(2, <<"pc">>),
                       location |-> None, rtd_location |-> None, company |-> c] :
                         c \in {Company(1, <<"a">>), Company(2, <<"Oper">>)}},
                     MaxRecords)
               \cup {ThreeUnplaced}}

\* the empty target, the target of an earlier run, and that target with the
\* site the word is mapped to
FallbackAssetTargets ==
    {NoLists, SyncedBase,
     [SyncedBase EXCEPT !["sites"] =
         WithIds(Append(@, Site(<<"530", " ", "Verwaltung", "/", "Oper">>, None)))]}

InitFallbackAssets == snipe \in FallbackAssetSources /\ netbox \in FallbackAssetTargets

Init ==
    /\ allow_updates \in BOOLEAN
    /\ allow_linking \in BOOLEAN
    /\ \/ InitTenants
       \/ InitManufacturers
       \/ InitDeviceTypes
       \/ InitSites
       \/ InitLocations
       \/ InitNamedAssets
       \/ InitReferringAssets
       \/ InitFallbackAssets
    /\ snap = NoLists
    /\ sub_locations = <<>>
    /\ updates = <<>>
    /\ pc = "start"
    /\ i = 1
    /\ pass = 0
    /\ calls = <<>>
    /\ err = ""
    /\ last_run = "none"
    /\ custom_field = IF netbox = NoLists THEN "missing" ELSE "read-write"

Spec == Init /\ [][Next]_vars

-----------------------------------------------------------------------------
(* Vocabulary of the properties *)

\* the kinds a stage loops over, named as the stage is
Stages == {"tenants", "manufacturers", "device_types", "sites", "locations", "devices"}

\* the source records a stage loops over
Items(stage) ==
    CASE stage = "tenants" -> snipe.companies
      [] stage = "manufacturers" -> get_manufacturers(snipe.models)
      [] stage = "device_types" -> get_models(snipe.models)
      [] stage = "sites" -> top_locations(get_locations(snipe.locations))
      [] stage = "locations" -> with_parent(get_locations(snipe.locations))
      [] stage = "devices" -> snipe.assets

\* the source records a kind of target mirrors
SourceRecords(kind) ==
    IF kind = "device_roles"
    THEN [k \in 1..Len(snipe.assets) |-> snipe.assets[k].category]
    ELSE Items(kind)

\* a stage is about to handle the source record Item
Stepping == pc \in Stages /\ i <= Len(Items(pc))

Item == Items(pc)[i]

\* where the stage's listing holds the record with Item's linkage key, 0 if none
KeyMatch == get_customfield_from_dict_list(snap[pc], Item.id)

\* the site a source location resolves to, as a position in the listing
SiteOf(location) ==
    find_site(location.parent, snap.sites, with_parent(get_locations(snipe.locations)))

\* the id of the tenant an asset resolves to, None if it has none
TenantOf(asset) ==
    LET at == IF asset.company.id # None
              THEN get_customfield_from_dict_list(snap.tenants, asset.company.id)
              ELSE 0
    IN  IF at = 0 THEN None ELSE snap.tenants[at].id

\* where the stage's listing holds the record Item matches by name, 0 if none
NameMatch ==
    CASE pc \in {"tenants", "manufacturers", "sites"} -> get_by_name(snap[pc], Item.name)
      [] pc = "device_types" ->
            FirstIndex(snap.device_types,
                LAMBDA t : /\ t.model = Item.name
                           /\ nested_manufacturer_name(t, snap.manufacturers)
                                  = Item.manufacturer.name)
      [] pc = "locations" ->
            IF SiteOf(Item) = 0 THEN 0
            ELSE FirstIndex(snap.locations,
                     LAMBDA l : /\ l.name = Item.name
                                /\ l.site = snap.sites[SiteOf(Item)].id)
      [] pc = "devices" ->
            FirstIndex(snap.devices,
                LAMBDA d : /\ d.name = Item.name
                           /\ d.tenant # None
                           /\ d.tenant = TenantOf(Item))

\* where the listing holds the device with the asset tag of Item, 0 if none
TagMatch == FirstIndex(snap.devices, LAMBDA d : d.asset_tag = Item.asset_tag)

\* the same two lookups for the role of the asset Item
RoleKeyMatch == get_customfield_from_dict_list(snap.device_roles, Item.category.id)

RoleNameMatch == get_by_name(snap.device_roles, role_name(Item.category.name))

\* the write calls the step issues
NewCalls == {k \in 1..Len(calls') : k > Len(calls)}

\* the step issues an update call for the record id of a kind
Written(kind, id) ==
    \E k \in NewCalls :
        /\ calls'[k].op = "update"
        /\ calls'[k].kind = kind
        /\ calls'[k].payload.id = id

\* the create calls of the step that carry a linkage key
Creations(kind, key) ==
    {k \in NewCalls : /\ calls'[k].op = "create"
                      /\ calls'[k].kind = kind
                      /\ "snipe_object_id" \in DOMAIN calls'[k].payload
                      /\ calls'[k].payload.snipe_object_id = key}

SourceIds(kind) ==
    {SourceRecords(kind)[k].id : k \in 1..Len(SourceRecords(kind))}

\* the target records of a kind that carry a linkage key
Carrying(kind, key) ==
    {k \in 1..Len(netbox[kind]) : netbox[kind][k].snipe_object_id = key}

UpdateCalls == {k \in 1..Len(calls) : calls[k].op = "update"}

CreateCalls == {k \in 1..Len(calls) : calls[k].op = "create"}

-----------------------------------------------------------------------------
(* C1: idempotence.  A run that starts from the target a completed run left, *)
(* with the same source and flags, issues no update call.                    *)

C1_SecondRunIssuesNoUpdate ==
    (pass >= 2 /\ last_run = "done") => UpdateCalls = {}

-----------------------------------------------------------------------------
(* C2: uniqueness.  When a run has completed, no two target records of one   *)
(* kind carry the linkage key of the same source record.                     *)

C2_OneRecordPerSourceId ==
    pc = "done" =>
        \A kind \in Kinds : \A key \in SourceIds(kind) :
            Cardinality(Carrying(kind, key)) <= 1

\* a completed run that created a record next to one that was already linked
C2_Witness ==
    /\ pc = "done"
    /\ CreateCalls # {}
    /\ \E kind \in Kinds : \E key1, key2 \in SourceIds(kind) :
           /\ key1 # key2
           /\ Carrying(kind, key1) # {}
           /\ Carrying(kind, key2) # {}
           /\ \E k \in CreateCalls :
                  /\ calls[k].kind = kind
                  /\ calls[k].payload.snipe_object_id = key2

-----------------------------------------------------------------------------
(* C3: a linkage key, once stamped, is never replaced by another one: no     *)
(* step changes the linkage key of a target record that carries one.         *)

C3_StampedKeyIsKept ==
    [][\A kind \in Kinds : \A k \in 1..Len(netbox[kind]) :
          netbox[kind][k].snipe_object_id # None
              => netbox'[kind][k].snipe_object_id = netbox[kind][k].snipe_object_id]_vars

-----------------------------------------------------------------------------
(* C4: with allow_updates off, a step leaves the target record it matched by *)
(* linkage key as it was, and the relationship stage sets no parent pointer. *)

C4_UpdatesAreGated ==
    [][~allow_updates =>
          /\ (Stepping /\ KeyMatch # 0)
                 => netbox'[pc][snap[pc][KeyMatch].id] = netbox[pc][snap[pc][KeyMatch].id]
          /\ pc = "relationships" => netbox'.locations = netbox.locations]_vars

-----------------------------------------------------------------------------
(* C5: with allow_linking off, a step issues no update call for a target     *)
(* record it found by name only; this holds for the role of an asset too.    *)

C5_LinkingIsGated ==
    [][~allow_linking =>
          /\ (Stepping /\ pc # "devices" /\ KeyMatch = 0 /\ NameMatch # 0)
                 => ~Written(pc, snap[pc][NameMatch].id)
          /\ (Stepping /\ pc = "devices" /\ RoleKeyMatch = 0 /\ RoleNameMatch # 0)
                 => ~Written("device_roles", snap.device_roles[RoleNameMatch].id)]_vars

-----------------------------------------------------------------------------
(* C6: a source record that matches no target record, neither by linkage key *)
(* nor by name (nor, for an asset, by asset tag), gets exactly one new       *)
(* target record that carries its id, whatever the flags are; a sub-location *)
(* needs a site that resolves.                                               *)

NotFound ==
    /\ Stepping
    /\ KeyMatch = 0
    /\ NameMatch = 0
    /\ pc = "locations" => SiteOf(Item) # 0
    /\ pc = "devices" => TagMatch = 0

\* C6: an unmatched source record is given exactly one new record with its id
C6_NotFoundCreatesOne ==
    [][NotFound =>
          /\ Cardinality(Creations(pc, Item.id)) = 1
          /\ Len(netbox'[pc]) = Len(netbox[pc]) + 1
          /\ netbox'[pc][Len(netbox'[pc])].snipe_object_id = Item.id]_vars

-----------------------------------------------------------------------------
(* C7: linking.  The step that links a name-matched record (a role too).     *)

\* the step links the record it matched by name
Linking == allow_linking /\ Stepping /\ pc # "devices" /\ KeyMatch = 0 /\ NameMatch # 0

\* the step stamps the role it matched by name
Stamping == Stepping /\ pc = "devices" /\ RoleKeyMatch = 0 /\ RoleNameMatch # 0

Linked == snap[pc][NameMatch].id

Stamped == snap.device_roles[RoleNameMatch].id

\* the attributes a link writes next to the linkage key: the notes of the kind
LinkNotes(kind) ==
    CASE kind = "tenants" -> {"description"}
      [] kind \in {"device_types", "sites"} -> {"comments"}
      [] OTHER -> {}

-----------------------------------------------------------------------------
(* C8: a record matched by linkage key whose reconciled fields all equal the *)
(* source's gets no write call, whatever the flags are.                      *)

\* the record the step matched by linkage key, as the stage listed it
Present == snap[pc][KeyMatch]

\* the id of the device type an asset resolves to, None if its model is not linked
TypeOf(asset) ==
    LET at == get_customfield_from_dict_list(snap.device_types, asset.model.id)
    IN  IF at = 0 THEN None ELSE snap.device_types[at].id

\* the id of the site of the location an asset stands in, None if there is none
LocatedSiteOf(asset) ==
    LET at == IF asset.location # None
              THEN get_customfield_from_dict_list(snap.locations, asset.location)
              ELSE IF asset.rtd_location # None
                   THEN get_customfield_from_dict_list(snap.locations, asset.rtd_location)
                   ELSE 0
    IN  IF at = 0 THEN None ELSE snap.locations[at].site

\* the id of the role linked to the category of an asset, None if there is none
RoleOf(asset) ==
    LET at == get_customfield_from_dict_list(snap.device_roles, asset.category.id)
    IN  IF at = 0 THEN None ELSE snap.device_roles[at].id

\* the id of the manufacturer linked to the manufacturer of a model
ManufacturerOf(model) ==
    LET at == get_customfield_from_dict_list(snap.manufacturers, model.manufacturer.id)
    IN  IF at = 0 THEN None ELSE snap.manufacturers[at].id

\* every reference of a source record of the running stage resolves by linkage key
Resolves(item) ==
    CASE pc = "device_types" -> ManufacturerOf(item) # None
      [] pc = "locations" -> SiteOf(item) # 0
      [] pc = "devices" ->
            /\ item.name # <<>>
            /\ TenantOf(item) # None
            /\ TypeOf(item) # None
            /\ LocatedSiteOf(item) # None
            /\ RoleOf(item) # None
      [] OTHER -> TRUE

\* every reconciled field of a target record equals the field of a source record
\* whose references resolve; a device may carry the name with the asset tag added
Reconciled(record, item) ==
    CASE pc \in {"tenants", "manufacturers", "sites"} -> record.name = item.name
      [] pc = "device_types" ->
            /\ record.model = item.name
            /\ record.part_number = item.model_number
            /\ record.manufacturer = ManufacturerOf(item)
      [] pc = "locations" ->
            /\ record.name = item.name
            /\ record.site = snap.sites[SiteOf(item)].id
      [] pc = "devices" ->
            /\ \/ record.name = item.name
               \/ record.name = name_with_tag(item.name, item.asset_tag)
            /\ record.asset_tag = item.asset_tag
            /\ record.serial = item.serial
            /\ record.tenant = TenantOf(item)
            /\ record.device_type = TypeOf(item)
            /\ record.site = LocatedSiteOf(item)
            /\ record.role = RoleOf(item)

\* the listed record is the stored one and is reconciled with Item
InSync ==
    /\ Stepping
    /\ KeyMatch # 0
    /\ netbox[pc][Present.id] = Present
    /\ Resolves(Item)
    /\ Reconciled(Present, Item)

\* the same for the parent pointer the relationship stage looks at
ParentInSync ==
    /\ pc = "relationships"
    /\ i <= Len(sub_locations)
    /\ LET loc == get_customfield_from_dict_list(snap.locations, sub_locations[i].id)
           parent_loc == get_customfield_from_dict_list(snap.locations,
                                                        sub_locations[i].parent)
       IN  /\ loc # 0
           /\ parent_loc # 0
           /\ snap.locations[loc].parent = snap.locations[parent_loc].id

\* C8: a reconciled key-matched record, or parent pointer, is not written
C8_InSyncIsNotWritten ==
    [][/\ InSync => NewCalls = {} /\ netbox' = netbox
       /\ ParentInSync => updates' = updates /\ netbox' = netbox]_vars

-----------------------------------------------------------------------------
(* C9: the source wins.  With allow_updates on, when a stage has handled all *)
(* its source records, every target record it matched by linkage key and    *)
(* found to differ carries the values of its source record and the linkage   *)
(* key it had; when the relationship stage is through, the parent of every   *)
(* linked sub-location is the record linked to its source parent.            *)

\* the stage has handled all its source records
StageDone == pc \in Stages /\ i > Len(Items(pc)) /\ err = ""

\* the positions in the listing of the records the stage had to update
Differing ==
    {k \in 1..Len(Items(pc)) :
        LET at == get_customfield_from_dict_list(snap[pc], Items(pc)[k].id)
        IN  /\ at # 0
            /\ Resolves(Items(pc)[k])
            /\ ~Reconciled(snap[pc][at], Items(pc)[k])}

\* the stored record linked to a source location, 0 if none
StoredLocation(id) == get_customfield_from_dict_list(netbox.locations, id)

\* C9: after the stage an updated record equals its source and keeps its key
C9_SourceWins ==
    allow_updates =>
        /\ StageDone =>
              \A k \in Differing :
                  LET item == Items(pc)[k]
                      at == get_customfield_from_dict_list(snap[pc], item.id)
                      stored == netbox[pc][snap[pc][at].id]
                  IN  /\ Reconciled(stored, item)
                      /\ stored.snipe_object_id = item.id
        /\ (pc = "devices" /\ i = 1 /\ err = "") =>
              \A k \in 1..Len(sub_locations) :
                  LET loc == StoredLocation(sub_locations[k].id)
                      parent_loc == StoredLocation(sub_locations[k].parent)
                  IN  /\ loc # 0
                      /\ parent_loc # 0
                      /\ netbox.locations[loc].parent = netbox.locations[parent_loc].id

-----------------------------------------------------------------------------
(* C10: audit notes.  The notes of a record are its description and, where   *)
(* the kind has them, its comments; a note is a paragraph stamped with the   *)
(* time of the run.                                                          *)

IsPrefix(s, t) == Len(s) <= Len(t) /\ SubSeq(t, 1, Len(s)) = s

\* t is s with one paragraph of this run appended
Appended(s, t) ==
    /\ Len(t) = Len(s) + 1
    /\ IsPrefix(s, t)
    /\ t[Len(t)].time = pass
    /\ t[Len(t)].verb \in {"Imported", "Updated"}

\* the texts of a record, blank where the kind has none
TextOf(record, field) == IF field \in DOMAIN record THEN record[field] ELSE <<>>

\* the record a call writes, as it was before the step: blank for a create
Before(call) ==
    IF call.op = "create" THEN Blank(call.kind) ELSE netbox[call.kind][call.payload.id]

After(call) == netbox'[call.kind][call.payload.id]

ListedComments(call) ==
    {snap[call.kind][m].comments :
        m \in {n \in 1..Len(snap[call.kind]) : snap[call.kind][n].id = call.payload.id}}

-----------------------------------------------------------------------------
(* C11: matching order.  The linkage key is looked up first, the name only   *)
(* when no record carries the key.                                           *)

\* C11: when the listing holds a record with the linkage key of the source
\* record, every write of the step to the kind goes to that record, also when
\* another record carries the name: no other record is updated, none created;
\* a role found by the linkage key of the category is the role, none is
\* stamped or created.
C11_KeyMatchComesFirst ==
    [][/\ (Stepping /\ KeyMatch # 0) =>
            \A k \in NewCalls :
                calls'[k].kind = pc
                    => calls'[k].op = "update" /\ calls'[k].payload.id = Present.id
       /\ (Stepping /\ pc = "devices" /\ RoleKeyMatch # 0) =>
            \A k \in NewCalls : calls'[k].kind # "device_roles"]_vars

\* a record was updated to a name that another listed record carries
C11_Witness ==
    /\ pc \in Stages
    /\ \E k \in UpdateCalls :
           /\ calls[k].kind = pc
           /\ "name" \in DOMAIN calls[k].payload
           /\ \E m \in 1..Len(snap[pc]) :
                  /\ snap[pc][m].id # calls[k].payload.id
                  /\ snap[pc][m].name = calls[k].payload.name
                  /\ snap[pc][m].snipe_object_id
                         # netbox[pc][calls[k].payload.id].snipe_object_id

-----------------------------------------------------------------------------
(* C12: stage ordering within a pass.                                        *)

\* the stages in the order main.py runs them
StageOrder ==
    <<"tenants", "manufacturers", "device_types", "sites", "locations",
      "relationships", "devices", "done">>

\* the stages whose loop writes records of a kind
WritersOf(kind) ==
    CASE kind = "locations" -> {"locations", "relationships"}
      [] kind = "sites" -> {"sites", "devices"}            \* the fallback site
      [] kind = "device_roles" -> {"devices"}
      [] OTHER -> {kind}

\* C12: a pass sets up the custom field, then runs the stages tenants,
\* manufacturers, device types, sites, locations, relationship fixup, devices
\* one after the other: a stage is entered from the stage before it only, its
\* listings are read from the target as all earlier stages left it, every
\* write of a kind is issued by the stage of that kind, and a device role is
\* created or stamped in the device stage only.
C12_StagesInOrder ==
    [][/\ pc' # pc =>
            \/ pc' = "crashed"
            \/ pc \in {"start", "done", "crashed"} /\ pc' = "tenants"
            \/ \E k \in 1..(Len(StageOrder) - 1) :
                   pc = StageOrder[k] /\ pc' = StageOrder[k + 1]
       /\ pc' \notin {"start", "done", "crashed"} => custom_field' # "missing"
       /\ (pc' # pc /\ pc' \notin {"done", "crashed"}) =>
            \A kind \in Kinds : snap'[kind] \in {<<>>, netbox'[kind]}
       /\ \A k \in NewCalls : pc \in WritersOf(calls'[k].kind)]_vars

\* a pass that wrote a tenant, then a location, then a role, then a device is done
C12_Witness ==
    /\ pc = "done"
    /\ \E a, b, c, d \in 1..Len(calls) :
           /\ a < b /\ b < c /\ c < d
           /\ calls[a].kind = "tenants"
           /\ calls[b].kind = "locations"
           /\ calls[c].kind = "device_roles"
           /\ calls[d].kind = "devices"

-----------------------------------------------------------------------------
(* C13: the listing of a stage follows the writes of the stage.              *)

\* two create calls of the pass made records of one kind under one name
TwiceCreated ==
    \E a, b \in CreateCalls :
        /\ a < b
        /\ calls[a].kind = calls[b].kind
        /\ calls[a].kind \in {"tenants", "manufacturers", "sites", "device_roles"}
        /\ calls[a].payload.name = calls[b].payload.name

\* C13: while a stage runs, its listing of the kind it writes (and, in the
\* device stage, of the roles) equals the stored table, every create and update
\* of the stage included; so no stage creates two records of a kind under one
\* name.
C13_ListingReflectsWrites ==
    /\ (pc \in Stages /\ err = "") =>
           /\ snap[pc] = netbox[pc]
           /\ pc = "devices" => snap.device_roles = netbox.device_roles
    /\ ~TwiceCreated

-----------------------------------------------------------------------------
(* C14: the site of a location does not depend on its depth.                 *)

\* the source location with an id
SourceLocation(id) ==
    snipe.locations[FirstIndex(snipe.locations, LAMBDA l : l.id = id)]

\* the id of the top-level location the parent chain of a location ends at
RECURSIVE TopOf(_)
TopOf(location) ==
    IF location.parent = None THEN location.id ELSE TopOf(SourceLocation(location.parent))

\* C14: in the location stage, two source locations with parents whose parent
\* chains end at the same top-level location resolve to the same site, the
\* listed site that is linked to that top-level location, whatever their depths.
C14_SiteDoesNotDependOnDepth ==
    pc = "locations" =>
        \A a, b \in 1..Len(Items("locations")) :
            LET x == Items("locations")[a]
                y == Items("locations")[b]
            IN  TopOf(x) = TopOf(y) =>
                    /\ SiteOf(x) = SiteOf(y)
                    /\ SiteOf(x) = get_customfield_from_dict_list(snap.sites, TopOf(x))

-----------------------------------------------------------------------------
(* C15: the parent pointers after a pass.                                    *)

\* the source locations whose parent is itself below another location
BelowALocation ==
    {k \in 1..Len(snipe.locations) :
        /\ snipe.locations[k].parent # None
        /\ SourceLocation(snipe.locations[k].parent).parent # None}

\* the source A (top), B (parent A), C (parent B)
ChainABC ==
    <<Location(1, <<"a">>, None), Location(2, <<"b">>, 1), Location(3, <<"c">>, 2)>>

\* the pass is the first one and every stored record was created by it
StartedEmpty ==
    /\ pass = 1
    /\ \A kind \in Kinds :
           Len(netbox[kind]) = Cardinality({k \in CreateCalls : calls[k].kind = kind})

\* C15: when a pass with allow_updates on is done, the parent of every stored
\* location linked to a source location whose parent is itself below a location
\* is the stored location linked to that source parent; a pass over the source
\* A, B (parent A), C (parent B) that started from an empty target does not
\* abort and ends with location C in site A and the parent of C set to
\* location B.
C15_ParentsAreFixed ==
    /\ (pc = "done" /\ allow_updates) =>
           \A k \in BelowALocation :
               LET loc == StoredLocation(snipe.locations[k].id)
                   parent_loc == StoredLocation(snipe.locations[k].parent)
               IN  loc # 0 =>
                       /\ parent_loc # 0
                       /\ netbox.locations[loc].parent = netbox.locations[parent_loc].id
    /\ (StartedEmpty /\ snipe.locations = ChainABC) =>
           /\ pc # "crashed"
           /\ pc = "done" =>
                  /\ StoredLocation(3) # 0
                  /\ StoredLocation(2) # 0
                  /\ netbox.locations[StoredLocation(3)].site
                         = netbox.sites[get_customfield_from_dict_list(netbox.sites, 1)].id
                  /\ netbox.locations[StoredLocation(3)].parent
                         = netbox.locations[StoredLocation(2)].id

-----------------------------------------------------------------------------
(* C16: the precedence of the device lookups: linkage key, asset tag, name.  *)

\* the calls of the step that write devices
DeviceCalls == {k \in NewCalls : calls'[k].kind = "devices"}

\* C16: in a step of the device stage the first lookup that hits decides.  A
\* device found by the linkage key is the only device written and gets no key
\* stamped; else a device found by the asset tag is the only device written,
\* by one update that stamps the id of the asset as its linkage key; else a
\* device found by name and tenant is neither updated nor linked and one new
\* device is created for the asset.
C16_DeviceLookupOrder ==
    [][(Stepping /\ pc = "devices") =>
          /\ KeyMatch # 0 =>
                \A k \in DeviceCalls :
                    /\ calls'[k].op = "update"
                    /\ calls'[k].payload.id = snap.devices[KeyMatch].id
                    /\ "snipe_object_id" \notin DOMAIN calls'[k].payload
          /\ (KeyMatch = 0 /\ TagMatch # 0) =>
                /\ Cardinality(DeviceCalls) = 1
                /\ \A k \in DeviceCalls :
                       /\ calls'[k].op = "update"
                       /\ calls'[k].payload.id = snap.devices[TagMatch].id
                       /\ "snipe_object_id" \in DOMAIN calls'[k].payload
                       /\ calls'[k].payload.snipe_object_id = Item.id
                /\ netbox'.devices[snap.devices[TagMatch].id].snipe_object_id = Item.id
          /\ (KeyMatch = 0 /\ TagMatch = 0 /\ NameMatch # 0) =>
                /\ Cardinality(DeviceCalls) = 1
                /\ \A k \in DeviceCalls :
                       /\ calls'[k].op = "create"
                       /\ calls'[k].payload.snipe_object_id = Item.id
                /\ netbox'.devices[snap.devices[NameMatch].id]
                       = netbox.devices[snap.devices[NameMatch].id]]_vars

-----------------------------------------------------------------------------
(* C17: two assets under one name and tenant become two devices.             *)

\* the assets handled earlier in the stage that share name and company with
\* Item and for which this pass created a device
CreatedNamesakes ==
    {a \in 1..(i - 1) :
        /\ snipe.assets[a].name = Item.name
        /\ snipe.assets[a].company.id = Item.company.id
        /\ \E k \in CreateCalls :
               /\ calls[k].kind = "devices"
               /\ calls[k].payload.snipe_object_id = snipe.assets[a].id
               /\ calls[k].payload.tenant = TenantOf(Item)}

\* C17: when the device stage reaches an asset that is found neither by
\* linkage key nor by asset tag and that shares its name and its tenant with an
\* asset for which the pass created a device, the step creates one more device
\* for it, named with the asset tag appended, and the first device stays.
C17_NamesakeGetsTheTag ==
    [][(/\ Stepping /\ pc = "devices"
        /\ KeyMatch = 0 /\ TagMatch = 0
        /\ TenantOf(Item) # None
        /\ CreatedNamesakes # {}) =>
          /\ Cardinality(Creations("devices", Item.id)) = 1
          /\ Len(netbox'.devices) = Len(netbox.devices) + 1
          /\ netbox'.devices[Len(netbox'.devices)].name
                 = Item.name \o <<" ">> \o Item.asset_tag
          /\ netbox'.devices[Len(netbox'.devices)].snipe_object_id = Item.id
          /\ \A k \in 1..Len(netbox.devices) : netbox'.devices[k] = netbox.devices[k]
          /\ \A a \in CreatedNamesakes : Carrying("devices", snipe.assets[a].id) # {}]_vars

\* a pass created a device under the plain name and then one for its namesake
\* under the name with the tag
C17_Witness ==
    \E c, d \in CreateCalls :
        /\ c < d
        /\ calls[c].kind = "devices" /\ calls[d].kind = "devices"
        /\ calls[c].payload.name = <<"pc">>
        /\ calls[d].payload.name = <<"pc", " ", "t2">>
        /\ calls[c].payload.tenant = calls[d].payload.tenant
        /\ calls[c].payload.snipe_object_id # calls[d].payload.snipe_object_id
        /\ netbox.devices[calls[c].payload.id].name = <<"pc">>
        /\ netbox.devices[calls[d].payload.id].name = <<"pc", " ", "t2">>

-----------------------------------------------------------------------------
(* C18: the update payload of a device found by its linkage key.             *)

\* the attributes an update of a device may name next to the id
Reconcilable ==
    {"comments", "asset_tag", "serial", "site", "role", "tenant", "device_type", "name"}

-----------------------------------------------------------------------------
(* C19: an item with a missing reference is skipped, the pass goes on.       *)

\* the asset the device stage is about to handle has no company, or its model
\* is not linked to a device type
MissingReference ==
    /\ Stepping /\ pc = "devices"
    /\ Item.company.id = None \/ TypeOf(Item) = None

\* the location stage is about to handle a location found by name only, with
\* linking off
OnlyNameMatched ==
    /\ Stepping /\ pc = "locations"
    /\ ~allow_linking
    /\ KeyMatch = 0 /\ NameMatch # 0

\* the fixup is about to handle a sub-location that is not linked, or whose
\* parent is not
NotLinked ==
    /\ pc = "relationships" /\ i <= Len(sub_locations)
    /\ \/ get_customfield_from_dict_list(snap.locations, sub_locations[i].id) = 0
       \/ get_customfield_from_dict_list(snap.locations, sub_locations[i].parent) = 0

\* the step issues no write and moves on to the next item of the stage
Skipped == NewCalls = {} /\ netbox' = netbox /\ pc' = pc /\ i' = i + 1

\* C19: an asset without a company or without a linked device type, and a
\* location that was only found by name while linking is off, are skipped: the
\* step writes nothing for the item and the stage goes on with the next item,
\* in the location stage and in the parent fixup alike.
C19_MissingReferenceIsSkipped ==
    [][/\ MissingReference => Skipped
       /\ OnlyNameMatched => Skipped
       /\ NotLinked => Skipped /\ updates' = updates]_vars

-----------------------------------------------------------------------------
(* C20: a pass that a transport failure ended, and the pass after it.  A     *)
(* create or update call that fails raises in pynetbox; nothing catches it,  *)
(* so the pass ends with the calls before it done.                           *)

\* the world the running step makes when every call goes through
Attempt ==
    CASE pc = "tenants" ->
            sync_company(Here, snap.tenants, Item, allow_linking, allow_updates, pass)
      [] pc = "manufacturers" ->
            sync_manufacturer(Here, snap.manufacturers, Item, allow_linking,
                              allow_updates, pass)
      [] pc = "device_types" ->
            sync_model(Here, snap.device_types, snap.manufacturers, Item,
                       allow_linking, allow_updates, pass)
      [] pc = "sites" ->
            sync_top_location(Here, snap.sites, Item, allow_linking, allow_updates, pass)
      [] pc = "locations" ->
            sync_location(Here, snap.sites, snap.locations,
                          with_parent(get_locations(snipe.locations)), Item,
                          allow_linking, allow_updates, pass)
      [] pc = "devices" -> sync_asset(Here, snap, Item, pass).w

\* the store after the calls that went through
RECURSIVE Replay(_, _)
Replay(nb, cs) ==
    IF cs = <<>> THEN nb
    ELSE LET call == Head(cs)
         IN  Replay(IF call.op = "create"
                    THEN [nb EXCEPT ![call.kind] = Append(@, call.payload)]
                    ELSE [nb EXCEPT ![call.kind][call.payload.id] = Merge(@, call.payload)],
                    Tail(cs))

\* one of the write calls of the running step fails: the calls before it are
\* done, the exception ends the pass
transport_failure ==
    /\ Stepping
    /\ pass < MaxPasses
    /\ LET attempted == SubSeq(Attempt.calls, Len(calls) + 1, Len(Attempt.calls))
       IN  \E n \in 0..(Len(attempted) - 1) :
               /\ netbox' = Replay(netbox, SubSeq(attempted, 1, n))
               /\ calls' = calls \o SubSeq(attempted, 1, n)
    /\ pc' = "crashed"
    /\ err' = "RequestError"
    /\ UNCHANGED <<snap, i, sub_locations, updates>>
    /\ Frame

NextFailing == Next \/ transport_failure

SpecFailing == Init /\ [][NextFailing]_vars

\* the stored records of a kind under a name
Named(kind, name) == {k \in 1..Len(netbox[kind]) : netbox[kind][k].name = name}

\* C20: the records a pass wrote before it was aborted stay as they are when
\* the next pass starts; no step creates a record with a linkage key that a
\* stored record carries already, or a role (which is created without a key)
\* under a name that a stored role has; and when the pass after an aborted pass
\* is done, no two records of a kind carry the id of the same source record.
\* The fallback site stands for no source record and is left to C34.
C20_RerunMakesNoDuplicate ==
    [][/\ pc = "crashed" => netbox' = netbox
       /\ \A k \in NewCalls :
              calls'[k].op = "create" =>
                  IF calls'[k].payload.snipe_object_id # None
                  THEN Carrying(calls'[k].kind, calls'[k].payload.snipe_object_id) = {}
                  ELSE calls'[k].kind = "device_roles" =>
                           Named(calls'[k].kind, calls'[k].payload.name) = {}
       /\ (pc' = "done" /\ last_run' = "crashed") =>
              \A kind \in Kinds : \A key \in SourceIds(kind) :
                  Cardinality({k \in 1..Len(netbox'[kind]) :
                                  netbox'[kind][k].snipe_object_id = key}) <= 1]_vars

\* the first pass created the site and was aborted at the location, the second
\* pass created the location and is done
C20_Witness ==
    /\ pc = "done" /\ pass = 2 /\ last_run = "crashed"
    /\ \E s \in 1..Len(netbox.sites) : \E l \in 1..Len(netbox.locations) :
           /\ netbox.sites[s].description = desc(1)
           /\ netbox.sites[s].snipe_object_id = 1
           /\ netbox.locations[l].description = desc(2)
           /\ netbox.locations[l].site = netbox.sites[s].id
           /\ Cardinality(Carrying("sites", 1)) = 1
           /\ Cardinality(Carrying("locations", netbox.locations[l].snipe_object_id)) = 1

-----------------------------------------------------------------------------
(* C21: a sub-location the fixup cannot handle costs its own branch only.    *)

\* C21: when the fixup comes to a sub-location that is not linked, or whose
\* parent is not linked, the pass is not ended: the fixup goes on with the next
\* sub-location, the parent updates collected for the other sub-locations are
\* kept for the batch, and no exception is raised, so that the batch is sent
\* and the device stage runs.
C21_FixupFailureIsBranchScoped ==
    [][NotLinked =>
          /\ err' = ""
          /\ pc' # "crashed"
          /\ pc' = "relationships" /\ i' = i + 1
          /\ \A k \in 1..Len(updates) : k <= Len(updates') /\ updates'[k] = updates[k]]_vars

-----------------------------------------------------------------------------
(* C22: the site of a device is the site of the location of its asset.       *)

\* the source location an asset refers to: its location, else the location it
\* returns to, None when it names neither
LocationRef(asset) ==
    IF asset.location # None THEN asset.location ELSE asset.rtd_location

\* the id of the stored site a source location resolves to: the site linked to
\* a top-level location, the site of the stored location linked to any other
\* location; None when nothing is linked
ResolvedSite(ref) ==
    LET site_at == get_customfield_from_dict_list(netbox.sites, ref)
        loc_at == StoredLocation(ref)
    IN  IF SourceLocation(ref).parent = None
        THEN IF site_at = 0 THEN None ELSE netbox.sites[site_at].id
        ELSE IF loc_at = 0 THEN None ELSE netbox.locations[loc_at].site

\* C22: when the device stage handles an asset that refers to a location, or
\* failing that to a fallback location, for which the target holds a site, be
\* the location a top-level one mirrored as a site or one below, the step makes
\* no fallback site and every device it creates or updates is in that site
\* afterwards.
C22_DeviceSiteIsTheLocationsSite ==
    [][(/\ Stepping /\ pc = "devices"
        /\ LocationRef(Item) # None
        /\ ResolvedSite(LocationRef(Item)) # None) =>
          /\ \A k \in NewCalls : calls'[k].kind # "sites"
          /\ \A k \in DeviceCalls :
                 netbox'.devices[calls'[k].payload.id].site
                     = ResolvedSite(LocationRef(Item))]_vars

-----------------------------------------------------------------------------
(* C23: the role of a device, from the category of its asset.                *)

\* a category name cut at its first hyphen, if it has one, and trimmed
CutAtHyphen(name) ==
    IF Find(name, "-") >= 0 THEN Strip(Prefix(name, Find(name, "-"))) ELSE name

\* the calls of the step that write device roles
RoleCalls == {k \in NewCalls : calls'[k].kind = "device_roles"}

\* where the listing holds a role under the cut name of the category of Item
CutNameMatch == get_by_name(snap.device_roles, CutAtHyphen(Item.category.name))

\* C23: a step of the device stage that does not raise resolves the role of the
\* asset in this order: a role with the id of the category as linkage key is
\* used as it is; else a role named as the category name cut at its first
\* hyphen and trimmed gets that id stamped by one update that names nothing
\* else; else one role is created under that name and its slug, without a
\* linkage key.
C23_RoleFromCategory ==
    [][(Stepping /\ pc = "devices" /\ err' = "") =>
          /\ RoleKeyMatch # 0 => RoleCalls = {}
          /\ (RoleKeyMatch = 0 /\ CutNameMatch # 0) =>
                /\ Cardinality(RoleCalls) = 1
                /\ \A k \in RoleCalls :
                       /\ calls'[k].op = "update"
                       /\ calls'[k].payload
                              = [id |-> snap.device_roles[CutNameMatch].id,
                                 snipe_object_id |-> Item.category.id]
          /\ (RoleKeyMatch = 0 /\ CutNameMatch = 0) =>
                /\ Cardinality(RoleCalls) = 1
                /\ \A k \in RoleCalls :
                       /\ calls'[k].op = "create"
                       /\ calls'[k].payload.name = CutAtHyphen(Item.category.name)
                       /\ calls'[k].payload.slug
                              = slugify(CutAtHyphen(Item.category.name))
                       /\ calls'[k].payload.snipe_object_id = None]_vars

-----------------------------------------------------------------------------
(* C24: the engine deletes nothing.                                          *)

\* the ids of the stored records of a kind
IdsOf(table) == {table[k].id : k \in 1..Len(table)}

\* C24: no step of a pass, and no start of a further pass, takes a record out
\* of the target: every id a kind holds before the step it holds after it, in
\* the same place, and no table gets shorter.
C24_NothingIsDeleted ==
    [][\A kind \in Kinds :
          /\ IdsOf(netbox[kind]) \subseteq IdsOf(netbox'[kind])
          /\ Len(netbox'[kind]) >= Len(netbox[kind])
          /\ \A k \in 1..Len(netbox[kind]) : netbox'[kind][k].id = netbox[kind][k].id]_vars

\* a second pass is done that created a record and updated another, and the
\* target holds a record more than the ids the creates of the pass made
C24_Witness ==
    /\ pc = "done" /\ pass = 2
    /\ CreateCalls # {} /\ UpdateCalls # {}
    /\ \E kind \in Kinds :
           /\ \E k \in UpdateCalls : calls[k].kind = kind
           /\ Len(netbox[kind]) > Cardinality({k \in CreateCalls : calls[k].kind = kind})
           /\ IdsOf(netbox[kind]) = 1..Len(netbox[kind])

-----------------------------------------------------------------------------
(* C25: what the first pass over the locations leaves for the fixup.         *)

\* C25: when the loop over the locations with a parent has ended and the fixup
\* runs, the target holds, for every source location with a parent, a location
\* with its id as linkage key, and for every sub-location handed to the fixup a
\* location with the id of its parent as linkage key.
C25_FirstPassLinksEveryLocation ==
    pc = "relationships" =>
        /\ \A k \in 1..Len(Items("locations")) :
               StoredLocation(Items("locations")[k].id) # 0
        /\ \A k \in 1..Len(sub_locations) :
               /\ StoredLocation(sub_locations[k].id) # 0
               /\ StoredLocation(sub_locations[k].parent) # 0

-----------------------------------------------------------------------------
(* C26: a location whose parents lead to no site.                            *)

\* the ids of the source locations above a location
RECURSIVE AncestorIds(_)
AncestorIds(location) ==
    IF location.parent = None THEN {}
    ELSE {location.parent} \cup AncestorIds(SourceLocation(location.parent))

\* no location above it is linked to a listed site
Unresolvable(location) ==
    \A a \in AncestorIds(location) :
        \A s \in 1..Len(snap.sites) : snap.sites[s].snipe_object_id # a

\* an earlier location of the running location stage was unresolvable
SkippedBefore ==
    \E j \in 1..(i - 1) : Unresolvable(Items("locations")[j])

-----------------------------------------------------------------------------
(* C27: more than one target under the name of a source record.              *)

\* the listed records the name scan of the running stage can hit for Item
Namesakes ==
    CASE pc \in {"tenants", "manufacturers", "sites"} ->
            {k \in 1..Len(snap[pc]) : snap[pc][k].name = Item.name}
      [] pc = "device_types" ->
            {k \in 1..Len(snap.device_types) :
                /\ snap.device_types[k].model = Item.name
                /\ nested_manufacturer_name(snap.device_types[k], snap.manufacturers)
                       = Item.manufacturer.name}
      [] pc = "locations" ->
            IF SiteOf(Item) = 0 THEN {}
            ELSE {k \in 1..Len(snap.locations) :
                     /\ snap.locations[k].name = Item.name
                     /\ snap.locations[k].site = snap.sites[SiteOf(Item)].id}
      [] OTHER -> {}

\* C27: in the stages of tenants, manufacturers, device types, sites and
\* locations, a source record without a linkage-key match under whose name the
\* listing holds two or more records (for a location: in its site) is skipped:
\* the step issues no call and changes no record; and a step that links a
\* record found by name found exactly one record under that name.
C27_AmbiguousNameIsSkipped ==
    [][(Stepping /\ pc # "devices" /\ KeyMatch = 0) =>
          /\ Cardinality(Namesakes) >= 2 =>
                /\ NewCalls = {} /\ netbox' = netbox
                /\ pc' = pc /\ i' = i + 1
          /\ (\E k \in NewCalls : calls'[k].op = "update") =>
                Cardinality(Namesakes) = 1]_vars

-----------------------------------------------------------------------------
(* C28: the name of a device does not drift.                                 *)

\* the device found by linkage key is stored under the name of the asset, or
\* under that name with the asset tag appended
NamedAsItsAsset ==
    /\ Stepping /\ pc = "devices"
    /\ KeyMatch # 0
    /\ Item.name # <<>>
    /\ \/ Present.name = Item.name
       \/ Present.name = Item.name \o <<" ">> \o Item.asset_tag

\* C28: a step of the device stage that finds, by linkage key, a device stored
\* under the name of its asset, or under that name with the asset tag appended,
\* names no name in any update and leaves the stored name as it is, also when
\* the name of the asset holds the asset tag.
C28_NoNameDrift ==
    [][NamedAsItsAsset =>
          /\ \A k \in DeviceCalls : "name" \notin DOMAIN calls'[k].payload
          /\ netbox'.devices[Present.id].name = netbox.devices[Present.id].name]_vars

-----------------------------------------------------------------------------
(* C29: one role per role name in a device stage.                            *)

\* the create calls of the pass that made a device role under a name
RoleCreations(name) ==
    {k \in CreateCalls : calls[k].kind = "device_roles" /\ calls[k].payload.name = name}

\* C29: the calls of a pass never hold two creates of a device role under one
\* name, and the role a pass created under the name the category of a later
\* asset resolves to is the role of every device that later step writes,
\* unless another role carries the id of that category as linkage key.
C29_OneRolePerName ==
    /\ \A k \in CreateCalls :
           calls[k].kind = "device_roles" =>
               Cardinality(RoleCreations(calls[k].payload.name)) = 1
    /\ \A d \in 1..Len(calls) :
           calls[d].kind = "devices" /\ "role" \in DOMAIN calls[d].payload =>
               \A k \in CreateCalls :
                   (/\ k < d
                    /\ calls[k].kind = "device_roles"
                    /\ \E a \in 1..Len(snipe.assets) :
                           /\ snipe.assets[a].id = netbox.devices[calls[d].payload.id].snipe_object_id
                           /\ role_name(snipe.assets[a].category.name) = calls[k].payload.name
                           /\ Carrying("device_roles", snipe.assets[a].category.id)
                                  \subseteq {calls[k].payload.id})
                       => calls[d].payload.role = calls[k].payload.id

\* the pass created the role "pc" for the first asset and used it for the
\* device of the second asset, whose category resolves to the same name
C29_Witness ==
    /\ pc = "devices" /\ i = 3
    /\ snipe.assets[1].category.id # snipe.assets[2].category.id
    /\ role_name(snipe.assets[1].category.name) = role_name(snipe.assets[2].category.name)
    /\ Cardinality(RoleCreations(<<"pc">>)) = 1
    /\ \E c, d \in CreateCalls :
           /\ c < d
           /\ calls[c].kind = "devices" /\ calls[d].kind = "devices"
           /\ calls[c].payload.role = calls[d].payload.role
           /\ \A k \in RoleCreations(<<"pc">>) : calls[d].payload.role = calls[k].payload.id

-----------------------------------------------------------------------------
(* C30: the site a location belongs to.                                      *)

\* the calls of the step that write locations
LocationCalls == {k \in NewCalls : calls'[k].kind = "locations"}

\* C30: every location the first pass creates, and every location whose site
\* it updates, is put into the listed site that is linked to the top-level
\* location above its source location; and when the fixup sends its batch,
\* every location whose parent it sets is in the site of that parent.
C30_LocationsStayInTheirSite ==
    [][/\ (Stepping /\ pc = "locations") =>
              \A k \in LocationCalls :
                  "site" \in DOMAIN calls'[k].payload =>
                      /\ get_customfield_from_dict_list(snap.sites, TopOf(Item)) # 0
                      /\ calls'[k].payload.site
                             = snap.sites[get_customfield_from_dict_list(
                                              snap.sites, TopOf(Item))].id
       /\ (pc = "relationships" /\ pc' = "devices") =>
              \A k \in LocationCalls :
                  "parent" \in DOMAIN calls'[k].payload =>
                      netbox'.locations[calls'[k].payload.id].site
                          = netbox'.locations[calls'[k].payload.parent].site]_vars

-----------------------------------------------------------------------------
\* Foreign keys of created devices (syncer.py 868-870, 894-899, 1040-1057)

\* the assets of the source, by position
Assets == Items("devices")

\* the device creations of the pass so far
DeviceCreations == {k \in CreateCalls : calls[k].kind = "devices"}

-----------------------------------------------------------------------------
\* The walk up the parents (syncer.py 573-598)

\* a faulty walk: a parent that is not linked to a site is looked up once more
\* before the walk moves on
RECURSIVE walk_revisiting(_, _, _)
walk_revisiting(parent, netbox_sites, locations_with_parents) ==
    IF parent = None
    THEN <<>>
    ELSE LET parent_item == FirstIndex(locations_with_parents,
                                       LAMBDA item : item.id = parent)
             up == IF parent_item # 0
                   THEN locations_with_parents[parent_item].parent
                   ELSE None
         IN  IF get_customfield_from_dict_list(netbox_sites, parent) # 0
             THEN <<parent>>
             ELSE <<parent, parent>>
                      \o walk_revisiting(up, netbox_sites, locations_with_parents)

\* the passes of the while loop of __sync_location that look at a parent: the
\* ids of the parents in the order in which the loop looks for their site; the
\* loop ends at the first one that is linked to a site, or at parent = None
RECURSIVE walk(_, _, _)
walk(parent, netbox_sites, locations_with_parents) ==
    IF parent = None
    THEN <<>>
    ELSE LET parent_item == FirstIndex(locations_with_parents,
                                       LAMBDA item : item.id = parent)
             up == IF parent_item # 0
                   THEN locations_with_parents[parent_item].parent
                   ELSE None
         IN  IF get_customfield_from_dict_list(netbox_sites, parent) # 0
             THEN <<parent>>
             ELSE <<parent>> \o walk(up, netbox_sites, locations_with_parents)

\* the walk of the location the location stage is at
WalkOfItem == walk(Item.parent, snap.sites, Items("locations"))

\* where the walk of the location the stage is at ends: position of a site, or 0
SiteOfWalk == find_site(Item.parent, snap.sites, Items("locations"))

\* C32: for a source whose parent references form a forest the walk of
\* __sync_location ends: it looks at no location twice and only at locations
\* above the one it started from, so it takes at most one step per ancestor,
\* and it ends either with the site linked to the last location it looked at
\* or, when none of them is linked to a site, with the error return
C32_WalkEndsWithinTheAncestors ==
    (Stepping /\ pc = "locations") =>
        /\ Len(WalkOfItem) <= Cardinality(AncestorIds(Item))
        /\ \A a \in 1..Len(WalkOfItem) : WalkOfItem[a] \in AncestorIds(Item)
        /\ \A a, b \in 1..Len(WalkOfItem) : a # b => WalkOfItem[a] # WalkOfItem[b]
        /\ IF \E a \in 1..Len(WalkOfItem) : Carrying("sites", WalkOfItem[a]) # {}
           THEN /\ SiteOfWalk \in Carrying("sites", WalkOfItem[Len(WalkOfItem)])
                /\ \A a \in 1..(Len(WalkOfItem) - 1) : Carrying("sites", WalkOfItem[a]) = {}
           ELSE SiteOfWalk = 0

\* the stage is at a location whose walk took two steps, past its unlinked
\* parent to the site of the location above it
C32_Witness ==
    /\ Stepping /\ pc = "locations"
    /\ Len(WalkOfItem) = 2
    /\ SiteOfWalk # 0
    /\ Carrying("sites", WalkOfItem[1]) = {}

\* the stage is at a location whose walk ended with the error return after it
\* had looked at every location above it
C32_WitnessErrorReturn ==
    /\ Stepping /\ pc = "locations"
    /\ Len(WalkOfItem) = 2
    /\ SiteOfWalk = 0

-----------------------------------------------------------------------------
\* The fixup of the parent pointers as one batch (syncer.py 699-745)

\* the parent changes the fixup has collected name locations of the listing
\* taken at its start
Collected ==
    \A u \in 1..Len(updates) :
        \E l \in 1..Len(snap.locations) :
            snap.locations[l].id = updates[u].id /\ snap.locations[l].parent # updates[u].parent

\* C33: the fixup of the parent pointers is all-or-nothing: while it checks the
\* sub-locations it sends nothing and the target stays as it was listed; when a
\* check fails the pass ends with the locations of the target as they were
\* listed at the start of the fixup, whatever had been collected; and the
\* collected changes are sent only after the last sub-location was checked,
\* as update calls for exactly the collected changes
C33_FixupIsAllOrNothing ==
    [][pc = "relationships" =>
         /\ i <= Len(sub_locations) =>
               /\ NewCalls = {}
               /\ netbox' = netbox
               /\ netbox'.locations = snap.locations
         /\ pc' = "crashed" =>
               /\ netbox'.locations = snap.locations
               /\ \A l \in 1..Len(netbox'.locations) :
                      netbox'.locations[l].parent = snap.locations[l].parent
         /\ netbox' # netbox =>
               /\ i > Len(sub_locations)
               /\ pc' = "devices"
               /\ Cardinality(NewCalls) = Len(updates)
               /\ \A k \in NewCalls :
                      /\ calls'[k].op = "update" /\ calls'[k].kind = "locations"
                      /\ \E u \in 1..Len(updates) :
                             /\ calls'[k].payload.id = updates[u].id
                             /\ calls'[k].payload.parent = updates[u].parent]_vars

\* a parent change was collected for one sub-location, the check of a later one
\* failed, and the target holds the locations as they were listed
C33_Witness ==
    /\ pc = "crashed"
    /\ err = "AssertionError"
    /\ updates # <<>>
    /\ Collected
    /\ netbox.locations = snap.locations
    /\ \A k \in 1..Len(calls) : calls[k].kind # "locations"

\* the batch of a fixup that passed every check was sent
C33_WitnessSent ==
    /\ pc = "devices"
    /\ updates # <<>>
    /\ \E k \in UpdateCalls : calls[k].kind = "locations" /\ calls[k].payload.parent # None

-----------------------------------------------------------------------------
\* The fallback site (syncer.py 88-124, 887-892)

\* the calls of a step that create a site named DEFAULT_SITE_NAME
DefaultSiteCreations ==
    {k \in NewCalls : /\ calls'[k].op = "create" /\ calls'[k].kind = "sites"
                      /\ calls'[k].payload.name = DEFAULT_SITE_NAME}

\* the sites of the target named DEFAULT_SITE_NAME
DefaultSites ==
    {s \in 1..Len(netbox.sites) : netbox.sites[s].name = DEFAULT_SITE_NAME}

\* C34: in the device stage the site "Default Site" is created at most once,
\* and never while the target holds a site of that name: a step that creates
\* it finds no such site in the target and leaves exactly one
C34_DefaultSiteIsCreatedOnce ==
    [][(Stepping /\ pc = "devices" /\ DefaultSiteCreations # {}) =>
          /\ DefaultSites = {}
          /\ Cardinality(DefaultSiteCreations) = 1
          /\ Cardinality({s \in 1..Len(netbox'.sites) :
                             netbox'.sites[s].name = DEFAULT_SITE_NAME}) = 1]_vars

\* the fallback site of a company without a word of the mapping: the site
\* "Default Site" was created for the first asset and taken for the second
C34_CreatedOnceForPlainNames ==
    /\ pc = "devices" /\ i = 3
    /\ \A a \in 1..Len(Assets) : Assets[a].company.name = <<"a">> /\ Assets[a].location = None
    /\ Cardinality(DefaultSites) = 1
    /\ Cardinality({k \in DeviceCreations : calls[k].payload.site \in DefaultSites}) = 2

-----------------------------------------------------------------------------
\* The manufacturer of a device type (syncer.py 328-349, 351-366, 391-408)

\* the manufacturers of the target that carry the id of the manufacturer of the
\* model the device-type stage is at: what the manufacturer stage left for it
ReconciledManufacturers == Carrying("manufacturers", Item.manufacturer.id)

\* C35: for a source model whose manufacturer the manufacturer stage has
\* reconciled (a target manufacturer carries its id, whatever its name), the
\* step of the device-type stage raises nothing, goes on to the next model and
\* gives a device type it creates that manufacturer
C35_ReconciledManufacturerIsResolved ==
    [][(Stepping /\ pc = "device_types" /\ ReconciledManufacturers # {}) =>
          /\ err' = ""
          /\ pc' = "device_types" /\ i' = i + 1
          /\ \A k \in NewCalls :
                calls'[k].op = "create" =>
                    calls'[k].payload.manufacturer \in ReconciledManufacturers]_vars

\* a device type was created for a model whose manufacturer is linked under
\* the name of the source
C35_ResolvedByEqualName ==
    /\ pc = "device_types" /\ i > 1
    /\ \E k \in CreateCalls :
          /\ calls[k].kind = "device_types"
          /\ Items("device_types")[i - 1].id = calls[k].payload.snipe_object_id
          /\ calls[k].payload.manufacturer
                \in Carrying("manufacturers", Items("device_types")[i - 1].manufacturer.id)

====
